---- MODULE Spec2Model ----
(***************************************************************************)
(* A model of the build orchestration of CppLabEngine:                     *)
(*   core/toolchains.py  toolchain registry and selection                  *)
(*   core/builder.py     build_project, build_project_parallel,            *)
(*                       check_project, run_executable, FileExistenceCache *)
(*   app.py              MainWindow.start_build_task and the BuildWorker   *)
(***************************************************************************)
EXTENDS Integers, Sequences, FiniteSets, TLC

VARIABLES
    \* ---- one call of select_toolchain (pure function, inputs drawn in Init)
    selCfg,      \* the project_config argument
    selReg,      \* the toolchains argument: the set of keys of the dict
    selFs,       \* the filesystem under compilers/: what exists per toolchain
    selOut,      \* NotCalled before the call, then the call's outcome
    \* ---- the filesystem the builder works on
    clock,       \* the wall clock that stamps files written now
    srcMtime,    \* st_mtime of every source file
    hdrText,     \* the content of every header: one of two texts
    exe,         \* the artifact <root>/<name>.exe: [exists, mtime]
    tcFs,        \* what exists below compilers/<toolchain>
    \* ---- the project and a build_project_parallel call in progress
    config,      \* the ProjectConfig (immutable)
    pc,          \* "idle", or where build_project_parallel stands
    task,        \* per submitted future: "queued", "running", or how it ended
    yielded,     \* the futures as_completed has handed to the loop
    object_files,    \* the list the loop appends to
    compile_success, \* the flag the loop clears
    pool,        \* max_workers of the executor
    toolchain,   \* the toolchain the call resolved
    callForce,   \* force_rebuild of the call in progress
    spawned,     \* subprocesses started by the current (or last) call
    \* ---- what the calls returned
    last,        \* the result the caller is being handed
    since,       \* whether the last build succeeded, and what was written since
    \* ---- one FileExistenceCache and the disk it fronts
    bits,        \* self.bits: the bytearray, one integer 0..255 per byte
    confirmed_exists,   \* self._confirmed_exists
    bloomHash,   \* the value of _hash for every path and seed (fixed at Init)
    disk,        \* the paths for which Path.exists() is true
    added,       \* history: the paths add() was called with
    bloomOut,    \* the last cache call and what it returned
    verified,    \* history: the paths a Path.exists() inside exists() confirmed
    \* ---- one DependencyCache, its cache file and the files it hashes
    cache_file,  \* what the cache file holds when the cache is constructed
    dcText,      \* per file: "missing", or the text it holds
    file_hashes, \* self.file_hashes: per file a digest, or "none" for no entry
    dependencies,       \* self.dependencies: a function from its keys to sets
    deps_default,       \* whether self.dependencies is (still) the defaultdict
    dcPc,        \* "new" before __init__, "ready", or inside needs_rebuild
    queue,       \* the BFS queue of needs_rebuild
    visited,     \* the visited set of needs_rebuild
    checks,      \* per file: the _check_hash calls of the current call
    dcOut,       \* the last needs_rebuild call and how it ended
    \* ---- one call of parse_gcc_output
    diagText,    \* the text argument: a sequence of characters
    diagOut,     \* the outcome of the call and the list it returned
    \* ---- get_toolchains, its cache and what it looks at
    app_root,    \* what get_app_root() returns
    tc_cache,    \* the lru_cache of get_toolchains: empty, or one result
    regFs,       \* what exists below <app root>/compilers/<toolchain>
    regOut,      \* empty, or what the last get_toolchains call returned
    \* ---- one call of project_config_for_single_file
    sfArgs,      \* the arguments and what the source file holds
    sfOut,       \* the outcome of the call and the ProjectConfig
    \* ---- an EditorCache
    store,       \* EditorCache._store: the (key, editor) items, oldest first
    max_editors, \* EditorCache.max_editors
    recency,     \* history: the cached keys in the order of their last use
    inserted,    \* history: the cached keys in the order they were inserted
    ecOut,       \* history: the last EditorCache call and what it did
    \* ---- MainWindow's build state, the worker threads and the event queue
    build_in_progress,      \* self.build_in_progress
    current_build_thread,   \* self.current_build_thread: 0 is None, else a build
    current_build_worker,   \* self.current_build_worker: 0 is None, else a build
    mainpc,      \* where the GUI thread stands: "idle", "asking", "waiting"
    thread,      \* per build: the state of its QThread
    quitReq,     \* per build: quit() was called while worker.run executes
    should_stop, \* per build: BuildWorker._should_stop
    proc,        \* per build: the compiler subprocess of its worker
    events,      \* the queued signal deliveries of the GUI thread, oldest first
    builds,      \* how many build requests created a worker so far
    req,         \* history: the last start_build_task call and what it did
    pending_run_after_build,  \* MainWindow._pending_run_after_build
    run_after,   \* history: build b was requested by on_build_and_run
    launch       \* history: the build whose on_build_finished called run_current

selVars == <<selCfg, selReg, selFs, selOut>>
fsVars  == <<clock, srcMtime, hdrText, exe, tcFs>>
parVars == <<pc, task, yielded, object_files, compile_success, pool,
             toolchain, callForce>>
resVars == <<spawned, last, since>>
bldVars == <<fsVars, config, parVars, resVars>>

bloomVars == <<bits, confirmed_exists, bloomHash, disk, added, bloomOut, verified>>
dcVars == <<cache_file, dcText, file_hashes, dependencies, deps_default, dcPc,
            queue, visited, checks, dcOut>>
diagVars == <<diagText, diagOut>>
regVars == <<app_root, tc_cache, regFs, regOut>>
sfVars == <<sfArgs, sfOut>>
ecVars == <<store, max_editors, recency, inserted, ecOut>>
uiVars == <<build_in_progress, current_build_thread, current_build_worker, mainpc,
            thread, quitReq, should_stop, proc, events, builds, req,
            pending_run_after_build, run_after, launch>>
nonBuildVars == <<selVars, bloomVars, uiVars, dcVars, diagVars, regVars, sfVars, ecVars>>
nonBloomVars == <<selVars, bldVars, uiVars, dcVars, diagVars, regVars, sfVars, ecVars>>
nonUIVars == <<selVars, bldVars, bloomVars, dcVars, diagVars, regVars, sfVars, ecVars>>
nonDcVars == <<selVars, bldVars, bloomVars, uiVars, diagVars, regVars, sfVars, ecVars>>
nonDiagVars == <<selVars, bldVars, bloomVars, uiVars, dcVars, regVars, sfVars, ecVars>>
nonRegVars == <<selVars, bldVars, bloomVars, uiVars, dcVars, diagVars, sfVars,
                ecVars>>
nonSfVars == <<selVars, bldVars, bloomVars, uiVars, dcVars, diagVars, regVars,
               ecVars>>
nonEcVars == <<selVars, bldVars, bloomVars, uiVars, dcVars, diagVars, regVars,
               sfVars>>
vars == <<selVars, bldVars, bloomVars, uiVars, dcVars, diagVars, regVars, sfVars, ecVars>>

(***************************************************************************)
(* core/toolchains.py                                                      *)
(***************************************************************************)

ToolchainNames == {"mingw32", "mingw64"}

\* get_toolchains(): the two ToolchainConfig entries, keyed by name.
get_toolchains ==
    [n \in ToolchainNames |->
        [name            |-> n,
         is_32bit        |-> (n = "mingw32"),
         supports_openmp |-> (n = "mingw64")]]

\* What can exist on disk below one toolchain root: bin/, bin/gcc.exe and
\* bin/g++.exe.  An executable cannot exist without its directory.
ToolchainDirStates ==
    {d \in [bin : BOOLEAN, gcc : BOOLEAN, gpp : BOOLEAN] :
        (d.gcc \/ d.gpp) => d.bin}

ToolchainFsStates == [ToolchainNames -> ToolchainDirStates]

\* A toolchain directory as installed, and after its removal.
Installed == [bin |-> TRUE, gcc |-> TRUE, gpp |-> TRUE]
Removed   == [bin |-> FALSE, gcc |-> FALSE, gpp |-> FALSE]

\* ToolchainConfig.is_available(): bin_dir.exists() and cpp_compiler.exists()
is_available(tc, fs) == fs[tc].bin /\ fs[tc].gpp

\* The toolchain_preference values a project file can carry.
Preferences == {"auto", "mingw64", "mingw32", "64bit"}

NotCalled == [kind |-> "none", error |-> "none", name |-> "none"]
Raised(err) == [kind |-> "raise", error |-> err, name |-> "none"]
Returned(n) == [kind |-> "return", error |-> "none", name |-> n]

\* The `else` branch of select_toolchain: the preference if it names a
\* registered toolchain, otherwise toolchains.get("mingw64") or
\* toolchains.get("mingw32") (None when the registry has neither).
Preferred(pref, reg) ==
    IF pref = "mingw64" /\ "mingw64" \in reg THEN "mingw64"
    ELSE IF pref = "mingw32" /\ "mingw32" \in reg THEN "mingw32"
    ELSE IF "mingw64" \in reg THEN "mingw64"
    ELSE IF "mingw32" \in reg THEN "mingw32"
    ELSE "None"

\* uses_graphics of select_toolchain (mutation: looks at the feature only
\* when the preference is not an explicit 64-bit one).
UsesGraphicsUnlessPref64(cfg) ==
    (cfg.project_type = "graphics" \/ cfg.graphics) /\ cfg.pref # "mingw64"

\* uses_graphics of select_toolchain
UsesGraphics(cfg) == cfg.project_type = "graphics" \/ cfg.graphics

\* select_toolchain (mutation: the is_available() test is left out).
select_toolchain_unchecked(cfg, reg, fs) ==
    IF UsesGraphics(cfg)
    THEN IF "mingw32" \notin reg THEN Raised("KeyError") ELSE Returned("mingw32")
    ELSE LET sel == Preferred(cfg.pref, reg) IN
         IF sel = "None" THEN Raised("AttributeError") ELSE Returned(sel)

\* select_toolchain(project_config, toolchains) on filesystem fs.
select_toolchain(cfg, reg, fs) ==
    IF UsesGraphics(cfg)
    THEN IF "mingw32" \notin reg THEN Raised("KeyError")
         ELSE IF ~is_available("mingw32", fs) THEN Raised("FileNotFoundError")
         ELSE Returned("mingw32")
    ELSE LET sel == Preferred(cfg.pref, reg) IN
         IF sel = "None" THEN Raised("AttributeError")
         ELSE IF ~is_available(sel, fs) THEN Raised("FileNotFoundError")
         ELSE Returned(sel)

\* The projects select_toolchain is applied to.
SelConfigs ==
    [language     : {"c", "cpp"},
     project_type : {"console", "graphics"},
     graphics     : BOOLEAN,
     openmp       : BOOLEAN,
     pref         : Preferences]

\* The state of the selection variables while no selection is modelled.
SelQuiet ==
    /\ selCfg = [language |-> "cpp", project_type |-> "console", graphics |-> FALSE,
                 openmp |-> FALSE, pref |-> "auto"]
    /\ selReg = {}
    /\ selFs = [n \in ToolchainNames |-> Removed]
    /\ selOut = NotCalled

(***************************************************************************)
(* core/builder.py: the project, the filesystem and the commands           *)
(***************************************************************************)

Range(s) == {s[i] : i \in DOMAIN s}

MaxClock == 1
\* File modification times.  MaxClock + 1 is a stamp later than every clock
\* reading (a file copied from a machine whose clock runs ahead).
Stamps == 0..(MaxClock + 1)

Sources == {"main.cpp", "util.cpp", "io.cpp", "lib/io.cpp", "main.c", "draw.c",
            "io.c"}
Headers == {"util.h", "types.h"}

\* Dependency edges, as the include scanner supplies them through
\* add_dependency(source, header).
Deps ==
    [p \in Sources \cup Headers |->
        IF p \in {"main.cpp", "main.c"} THEN {"util.h"}
        ELSE IF p = "util.h" THEN {"types.h"}
        ELSE IF p = "types.h" THEN {"util.h"}
        ELSE {}]

\* The headers reachable from the files of a project through Deps.
ReachableHeaders(cfg) ==
    LET Reach[n \in 0..Cardinality(Headers)] ==
            IF n = 0 THEN Range(cfg.files)
            ELSE Reach[n - 1] \cup UNION {Deps[p] : p \in Reach[n - 1]}
    IN Reach[Cardinality(Headers)] \cap Headers

\* Path.stem of a source file, with the ".o" of _compile_single_source.
ObjFile(f) ==
    IF f \in {"main.cpp", "main.c"} THEN "main.o"
    ELSE IF f = "util.cpp" THEN "util.o"
    ELSE IF f = "draw.c" THEN "draw.o"
    ELSE "io.o"

\* The projects built here: a single-file console project, a three-file
\* console project with OpenMP, a three-file C graphics project that asks
\* for the 64-bit toolchain, a three-file project with graphics and OpenMP
\* a two-file project of type graphics without the graphics feature, and a
\* three-file project with io.cpp in the root and in lib/.
Projects ==
    { [language |-> "cpp", standard |-> "c++17", project_type |-> "console",
       graphics |-> FALSE, openmp |-> FALSE, pref |-> "auto",
       files |-> <<"main.cpp">>],
      [language |-> "cpp", standard |-> "c++17", project_type |-> "console",
       graphics |-> FALSE, openmp |-> TRUE, pref |-> "auto",
       files |-> <<"main.cpp", "util.cpp", "io.cpp">>],
      [language |-> "c", standard |-> "c11", project_type |-> "graphics",
       graphics |-> TRUE, openmp |-> FALSE, pref |-> "mingw64",
       files |-> <<"io.c", "main.c", "draw.c">>],
      [language |-> "cpp", standard |-> "c++17", project_type |-> "graphics",
       graphics |-> TRUE, openmp |-> TRUE, pref |-> "auto",
       files |-> <<"main.cpp", "util.cpp", "io.cpp">>],
      [language |-> "cpp", standard |-> "c++17", project_type |-> "graphics",
       graphics |-> FALSE, openmp |-> TRUE, pref |-> "auto",
       files |-> <<"main.cpp", "util.cpp">>],
      [language |-> "cpp", standard |-> "c++17", project_type |-> "graphics",
       graphics |-> FALSE, openmp |-> FALSE, pref |-> "auto",
       files |-> <<"main.cpp", "io.cpp", "lib/io.cpp">>] }

\* The toolchains argument the application passes: get_toolchains().
Registry == DOMAIN get_toolchains

\* str(toolchain.bin_dir / f"{compiler}.exe")
CompilerPath(tc, language) ==
    IF tc = "mingw64"
    THEN (IF language = "c" THEN "mingw64/bin/gcc.exe" ELSE "mingw64/bin/g++.exe")
    ELSE (IF language = "c" THEN "mingw32/bin/gcc.exe" ELSE "mingw32/bin/g++.exe")

\* Whether the executable subprocess.run is given exists.
CompilerExists(tc, language, fs) ==
    IF language = "c" THEN fs[tc].gcc ELSE fs[tc].gpp

StdFlag(cfg) == IF cfg.standard = "c11" THEN "-std=c11" ELSE "-std=c++17"

\* The OpenMP flag (mutation: toolchain.supports_openmp is not asked).
OpenmpFlagsAlways(cfg, tc) ==
    IF cfg.openmp THEN <<"-fopenmp">> ELSE <<>>

\* `if config.features.get("openmp", False) and toolchain.supports_openmp`
OpenmpFlags(cfg, tc) ==
    IF cfg.openmp /\ get_toolchains[tc].supports_openmp THEN <<"-fopenmp">> ELSE <<>>

\* The graphics libraries (mutation: -luuid comes before -lcomdlg32).
GraphicsLibsReordered(cfg) ==
    IF cfg.graphics
    THEN <<"-lbgi", "-lgdi32", "-luuid", "-lcomdlg32", "-lole32", "-loleaut32">>
    ELSE <<>>

\* `if config.features.get("graphics", False): cmd.extend([...])`
GraphicsLibs(cfg) ==
    IF cfg.graphics
    THEN <<"-lbgi", "-lgdi32", "-lcomdlg32", "-luuid", "-lole32", "-loleaut32">>
    ELSE <<>>

\* maybe_log_profile(config, result, toolchain): the number of records one
\* call appends to build_profile.jsonl, none unless CPPLAB_PROFILE_BUILDS
\* is set.
maybe_log_profile(profiling) == IF profiling THEN 1 ELSE 0

\* build_command(config, toolchain)
build_command(cfg, tc) ==
    <<CompilerPath(tc, cfg.language)>> \o cfg.files \o <<StdFlag(cfg)>>
        \o OpenmpFlags(cfg, tc) \o <<"-o", "app.exe">> \o GraphicsLibs(cfg)

\* check_command (mutation: the compile-and-link command is used).
check_command_linking(cfg, tc) == build_command(cfg, tc)

\* check_command(config, toolchain)
check_command(cfg, tc) ==
    <<CompilerPath(tc, cfg.language)>> \o cfg.files \o <<StdFlag(cfg)>>
        \o OpenmpFlags(cfg, tc) \o <<"-fsyntax-only">>

\* cmd of _compile_single_source for the source file f
compile_command(cfg, tc, f) ==
    <<CompilerPath(tc, cfg.language), f, StdFlag(cfg), "-c", "-o", ObjFile(f)>>
        \o OpenmpFlags(cfg, tc)

\* link_cmd of build_project_parallel for the object list objs
link_command(cfg, tc, objs) ==
    <<CompilerPath(tc, cfg.language)>> \o objs \o <<"-o", "app.exe">>
        \o OpenmpFlags(cfg, tc) \o GraphicsLibs(cfg)

\* needs_recompile of build_project and build_project_parallel: some
\* project file is newer than the artifact.  Every source file of the
\* project exists here, so the `if (root / f).exists()` filter passes all.
needs_recompile(cfg, mt, x) ==
    \E i \in DOMAIN cfg.files : mt[cfg.files[i]] > x.mtime

\* The up-to-date test (mutation: exe_path.exists() is not asked).
UpToDateIgnoringArtifact(cfg, force, mt, x) ==
    ~force /\ ~needs_recompile(cfg, mt, x)

\* The up-to-date test: `not force_rebuild and exe_path.exists()` and no
\* file newer than the artifact.
UpToDate(cfg, force, mt, x) ==
    ~force /\ x.exists /\ ~needs_recompile(cfg, mt, x)

\* What can have been written since the last successful build.
TouchKinds == {"source", "header", "other"}

\* BuildResult (or the exception), with what the call did and found:
\* kind is "return" or "raise"; link_run tells that the link command was
\* run; spawned counts the subprocesses started; task_failed that a compile
\* task failed; artifact_written that the artifact was written; available is
\* is_available() of the project's toolchain as the call began; follows
\* tells that the build before this call succeeded, and changed what was
\* written since; stderr tells what the stderr field holds ("compiler" for
\* the captured output of a process that exited nonzero, "exception" for
\* the text of a caught exception) and fault what went wrong in the call's
\* subprocesses ("spawn" for one that could not be started, "exit" for a
\* nonzero exit); had_artifact that the artifact existed as the call began;
\* still_running counts the compile subprocesses running as the call
\* returns, abandoned the futures the loop had not been handed when it
\* ended; runs lists the commands the call gave to subprocess.run, in the
\* order of the calls; profile_calls counts its calls of maybe_log_profile.
NoCall ==
    [op |-> "none", kind |-> "none", success |-> FALSE, skipped |-> FALSE,
     exe_path |-> FALSE, command |-> <<>>, link_run |-> FALSE, spawned |-> 0,
     task_failed |-> FALSE, artifact_written |-> FALSE, force |-> FALSE,
     available |-> FALSE, follows |-> FALSE, changed |-> {},
     stderr |-> {}, fault |-> {}, had_artifact |-> FALSE,
     still_running |-> 0, abandoned |-> 0, runs |-> <<>>, profile_calls |-> 0]

BuildOps == {"build_project", "build_project_parallel"}

\* The state of the builder variables while no builder call is modelled.
BldQuiet ==
    /\ clock = 0
    /\ srcMtime = [f \in Sources |-> 0]
    /\ hdrText = [h \in Headers |-> 0]
    /\ exe = [exists |-> FALSE, mtime |-> 0]
    /\ tcFs = [n \in ToolchainNames |-> Installed]
    /\ config \in {c \in Projects : Len(c.files) = 1}
    /\ pc = "idle"
    /\ task = <<>>
    /\ yielded = {}
    /\ object_files = <<>>
    /\ compile_success = TRUE
    /\ pool = 0
    /\ toolchain = "none"
    /\ callForce = FALSE
    /\ spawned = 0
    /\ last = NoCall
    /\ since = [ok |-> FALSE, touched |-> {}]

(***************************************************************************)
(* core/builder.py: FileExistenceCache, a Bloom filter in front of         *)
(* Path.exists().  _hash is blake2b of the path and the seed modulo size;  *)
(* the model lets it be any function into 0..size-1, drawn at Init.        *)
(***************************************************************************)
BloomSize == 3
NumHashes == 2
CachePaths == {"util.h", "types.h"}

Seeds == 0 .. (NumHashes - 1)
Positions == 0 .. (BloomSize - 1)
HashFunctions == [CachePaths -> [Seeds -> Positions]]

\* bytearray((size + 7) // 8)
ByteCount == (BloomSize + 7) \div 8
EmptyBits == [b \in 0 .. (ByteCount - 1) |-> 0]

RECURSIVE Shl1(_)
\* 1 << n
Shl1(n) == IF n = 0 THEN 1 ELSE 2 * Shl1(n - 1)

\* FileExistenceCache._hash(path, seed)
hash(p, seed) == bloomHash[p][seed]

\* FileExistenceCache._get_bit(pos) on bytearray b
get_bit(b, pos) == (b[pos \div 8] \div Shl1(pos % 8)) % 2 = 1

\* _set_bit (mutation: ^= in place of |=, which clears a bit that is set).
set_bit_xor(b, pos) ==
    [b EXCEPT ![pos \div 8] = IF get_bit(b, pos) THEN @ - Shl1(pos % 8)
                                                 ELSE @ + Shl1(pos % 8)]

\* FileExistenceCache._set_bit(pos): bits[byte_idx] |= (1 << bit_idx)
set_bit(b, pos) ==
    [b EXCEPT ![pos \div 8] = IF get_bit(b, pos) THEN @ ELSE @ + Shl1(pos % 8)]

RECURSIVE add_bits(_, _, _)
\* The loop of add(): for i in range(num_hashes): _set_bit(_hash(path, i))
add_bits(b, p, i) ==
    IF i = NumHashes THEN b ELSE add_bits(set_bit(b, hash(p, i)), p, i + 1)

\* FileExistenceCache.might_exist(path) on bytearray b
might_exist(b, p) == \A i \in Seeds : get_bit(b, hash(p, i))

NoCacheCall == [op |-> "none", path |-> "none", result |-> FALSE, checked |-> FALSE]

\* The state of the cache variables while no cache is modelled.
BloomQuiet ==
    /\ bits = EmptyBits
    /\ confirmed_exists = {}
    /\ bloomHash = [p \in CachePaths |-> [i \in Seeds |-> 0]]
    /\ disk = {}
    /\ added = {}
    /\ bloomOut = NoCacheCall
    /\ verified = {}

(***************************************************************************)
(* app.py: the build state of MainWindow and of the worker threads.        *)
(* A build is one BuildWorker with its QThread, numbered in creation order.*)
(***************************************************************************)
MaxBuilds == 3
Builds == 1 .. MaxBuilds

\* QThread: "unborn" before start(), "started" until worker.run is entered,
\* "running" while run executes, "idle" in the event loop after run returned,
\* "finished" once the loop exited, "terminated" after terminate().
ThreadStates == {"unborn", "started", "running", "idle", "finished", "terminated"}

NoRequest == [kind |-> "none", in_flight |-> FALSE, confirmed |-> FALSE,
              started |-> FALSE, unchanged |-> TRUE, run |-> FALSE]

NoLaunch == [by |-> 0, success |-> FALSE]

\* MainWindow.__init__: no build, no thread, no worker.
UIQuiet ==
    /\ build_in_progress = FALSE
    /\ current_build_thread = 0
    /\ current_build_worker = 0
    /\ mainpc = "idle"
    /\ thread = [b \in Builds |-> "unborn"]
    /\ quitReq = [b \in Builds |-> FALSE]
    /\ should_stop = [b \in Builds |-> FALSE]
    /\ proc = [b \in Builds |-> "none"]
    /\ events = <<>>
    /\ builds = 0
    /\ req = NoRequest
    /\ pending_run_after_build = FALSE
    /\ run_after = [b \in Builds |-> FALSE]
    /\ launch = NoLaunch

(***************************************************************************)
(* core/builder.py: DependencyCache.  A file holds one of two texts or is  *)
(* missing; the digest of a text is a value of its own (blake2b, taken to  *)
(* be free of collisions).  The cache file is absent, unreadable, not      *)
(* JSON, or JSON whose "hashes" and "deps" sections are each well formed   *)
(* or not.                                                                 *)
(***************************************************************************)
DcFiles == {"main.cpp", "util.h", "types.h"}
DcSources == {"main.cpp"}
Texts == {"a", "b"}
FileStates == {"missing"} \cup Texts

\* hashlib.blake2b(f.read(), digest_size=16).hexdigest()
Digest(t) == IF t = "a" THEN "da" ELSE "db"

\* DependencyCache._hash_file(path) on the files d: "" for a file that
\* cannot be opened.
hash_file(d, p) == IF d[p] = "missing" THEN "" ELSE Digest(d[p])

NoHashes == [f \in DcFiles |-> "none"]
\* defaultdict(set) with no key
NoDeps == [keys |-> {}, of |-> [f \in DcFiles |-> {}]]

\* A dependency map with the keys and edges given: of[k] is {} outside keys.
DepMap(keys, edges) ==
    [keys |-> keys, of |-> [f \in DcFiles |-> IF f \in keys THEN edges[f] ELSE {}]]

NoEdges == [f \in DcFiles |-> {}]

\* The "deps" sections a cache file holds here: none, one header, two
\* headers, a cycle of the two headers, and a diamond with and without an
\* entry for the header at its end.
DepSections ==
    { NoDeps,
      DepMap({"main.cpp"}, [NoEdges EXCEPT !["main.cpp"] = {"util.h"}]),
      DepMap({"main.cpp"}, [NoEdges EXCEPT !["main.cpp"] = {"util.h", "types.h"}]),
      DepMap(DcFiles, [NoEdges EXCEPT !["main.cpp"] = {"util.h"},
                                      !["util.h"] = {"types.h"},
                                      !["types.h"] = {"util.h"}]),
      DepMap({"main.cpp", "util.h"},
             [NoEdges EXCEPT !["main.cpp"] = {"util.h", "types.h"},
                             !["util.h"] = {"types.h"}]),
      DepMap(DcFiles,
             [NoEdges EXCEPT !["main.cpp"] = {"util.h", "types.h"},
                             !["util.h"] = {"types.h"}]) }

\* The "hashes" sections: per file no entry, or the digest of text "a".
HashSections == [DcFiles -> {"none", "da"}]

\* What the cache file can be when the cache is constructed.
CacheFiles ==
    { [kind |-> k, hashes_ok |-> FALSE, hashes |-> NoHashes,
       deps_ok |-> FALSE, deps |-> NoDeps] : k \in {"absent", "unreadable", "corrupt"} }
    \cup { [kind |-> "json", hashes_ok |-> TRUE, hashes |-> h,
            deps_ok |-> TRUE, deps |-> d] : h \in HashSections, d \in DepSections }
    \cup { [kind |-> "json", hashes_ok |-> TRUE, hashes |-> h,
            deps_ok |-> FALSE, deps |-> NoDeps] : h \in HashSections }
    \cup { [kind |-> "json", hashes_ok |-> FALSE, hashes |-> NoHashes,
            deps_ok |-> TRUE, deps |-> d] : d \in DepSections }

\* Loading the cache file raises: it cannot be opened, is not JSON, or one
\* of its sections is not a mapping of the expected shape.
LoadFails(cf) ==
    cf.kind \in {"unreadable", "corrupt"}
        \/ (cf.kind = "json" /\ (~cf.hashes_ok \/ ~cf.deps_ok))

NoDcCall == [kind |-> "none", op |-> "none", source |-> "none", result |-> FALSE,
             expected |-> FALSE, pristine |-> FALSE]

\* The state of the DependencyCache variables while none is modelled.
DcQuiet ==
    /\ cache_file = [kind |-> "absent", hashes_ok |-> FALSE, hashes |-> NoHashes,
                     deps_ok |-> FALSE, deps |-> NoDeps]
    /\ dcText = [f \in DcFiles |-> "missing"]
    /\ file_hashes = NoHashes
    /\ dependencies = NoDeps
    /\ deps_default = TRUE
    /\ dcPc = "new"
    /\ queue = <<>>
    /\ visited = {}
    /\ checks = [f \in DcFiles |-> 0]
    /\ dcOut = NoDcCall

(***************************************************************************)
(* core/diagnostics.py: the input and output of parse_gcc_output           *)
(***************************************************************************)
\* The number of lines of a text is at most MaxLines.
MaxLines == 2

\* A text is a sequence of characters.  "x" and "y" stand for the characters
\* that mean nothing to the pattern; each keyword is one token; "fatal error"
\* is the three tokens "fatal", " ", "error".
NL == "\n"
Whitespace == {" ", "\r"}
Digits == {"1", "2"}

\* The alternatives of the kind group, in the order of the pattern:
\* warning|error|fatal error|note
Kinds == << <<"warning">>, <<"error">>, <<"fatal", " ", "error">>, <<"note">> >>

\* The lines the texts are made of.
DiagLines ==
    { <<"x", ":", "1", ":", "2", ":", " ", "error", ":", " ", "x">>,
      <<"y", ":", "2", ":", "1", ":", "warning", ":", "y">>,
      <<" ", "x", ":", "2", ":", "2", ":", " ", "note", ":", " ", "x", "\r">>,
      <<"y", ":", "1", "2", ":", "1", ":", " ", "fatal", " ", "error", ":", " ",
        "x", " ", "y">>,
      <<"x", ":", "x", ":", "2", "1", ":", "1", ":", " ", "error", ":", " ", "y">>,
      <<"x", ":", "1", ":", "1", ":", " ", "error", ":", " ", "y", ":", "2", ":",
        "2", ":", " ", "warning", ":", " ", "x">>,
      <<"x", ":", "1", ":", " ", "error", ":", " ", "x">>,
      <<"x", ":", "1", ":", "1", ":", " ", "fatal", ":", " ", "x">>,
      <<"x", ":", "1", ":", "1", ":", " ", "x", " ", "error", ":", " ", "x">>,
      <<"x", ":", "1", ":", "1", ":", " ", "error", ":", " ">>,
      <<":", "1", ":", "1", ":", " ", "error", ":", " ", "x">>,
      <<"x", ":", " ", "error", ":", " ", "y">>,
      <<"x", " ", "y">>,
      <<" ", "\r">>,
      <<>> }

RECURSIVE Join(_)
\* The text whose lines are ls.
Join(ls) ==
    IF Len(ls) = 0 THEN <<>>
    ELSE IF Len(ls) = 1 THEN ls[1]
    ELSE ls[1] \o <<NL>> \o Join(Tail(ls))

DiagTexts == {Join(ls) : ls \in UNION {[1 .. n -> DiagLines] : n \in 0 .. MaxLines}}

\* A Diagnostic object.
Diagnostic(file, line, column, message, severity) ==
    [file |-> file, line |-> line, column |-> column, message |-> message,
     severity |-> severity]

NoParse == [kind |-> "uncalled", list |-> <<>>]

\* The state of the parser variables while no parse is modelled.
DiagQuiet ==
    /\ diagText = <<>>
    /\ diagOut = NoParse

(***************************************************************************)
(* core/toolchains.py: get_toolchains and the application root             *)
(***************************************************************************)
\* The directories get_app_root() can return.
AppRoots == {"C:/CppLab", "D:/Portable/CppLab"}

\* The body of get_toolchains for the application root `root`: both
\* ToolchainConfig entries, root_dir being root / "compilers" / name.
Toolchains(root) ==
    [n \in ToolchainNames |->
        [name            |-> n,
         root_dir        |-> <<root, "compilers", n>>,
         is_32bit        |-> (n = "mingw32"),
         supports_openmp |-> (n = "mingw64")]]

\* The state of the registry variables while get_toolchains is not modelled.
RegQuiet ==
    /\ app_root = "C:/CppLab"
    /\ tc_cache = <<>>
    /\ regFs = [n \in ToolchainNames |-> Installed]
    /\ regOut = <<>>

(***************************************************************************)
(* core/builder.py: the arguments of project_config_for_single_file        *)
(***************************************************************************)
Stems == {"test", "main"}
Suffixes == {".c", ".C", ".cpp", ".CPP", ".cc", ".cxx", ".h"}
\* standard_override: "None", the empty string or a standard.
Overrides == {"None", "", "c99", "c++20"}
SingleFileTypes == {"console", "graphics", "openmp"}

\* The arguments, with what detect_features_from_source finds in the file.
SingleFileArgs ==
    [stem : Stems, suffix : Suffixes, standard_override : Overrides,
     toolchain_preference : {"mingw64", "auto"}, project_type : SingleFileTypes,
     has_graphics : BOOLEAN, has_omp : BOOLEAN]

NoConfig ==
    [name |-> "none", language |-> "none", standard |-> "none",
     project_type |-> "none", graphics |-> FALSE, openmp |-> FALSE,
     files |-> <<>>, toolchain_preference |-> "none"]

NoSingleFile == [kind |-> "none", config |-> NoConfig]

\* The state of these variables while the function is not modelled.
SfQuiet ==
    /\ sfArgs = [stem |-> "main", suffix |-> ".cpp", standard_override |-> "None",
                 toolchain_preference |-> "mingw64", project_type |-> "console",
                 has_graphics |-> FALSE, has_omp |-> FALSE]
    /\ sfOut = NoSingleFile

(***************************************************************************)
(* app.py: EditorCache, the keys and editors it is used with               *)
(***************************************************************************)
\* The largest max_editors a cache is constructed with here.
MaxEditors == 2

\* EditorCache.__init__: max_editors: int = 10
DefaultMaxEditors == 10

\* The paths passed as keys ("./a.cpp" is another spelling of "a.cpp") and the
\* editor widgets.
EditorPaths == {"a.cpp", "./a.cpp", "b.cpp", "c.cpp"}
Editors == {"e1", "e2"}

\* _normalize_key: str(Path(key).resolve())
normalize_key(p) == IF p = "./a.cpp" THEN "a.cpp" ELSE p

NoEditorCall ==
    [op |-> "none", kind |-> "none", key |-> "none", value |-> <<>>,
     present |-> FALSE, full |-> FALSE, lru |-> <<>>, oldest |-> <<>>,
     evicted |-> <<>>, released |-> {}]

\* EditorCache(): an empty OrderedDict.
EcQuiet ==
    /\ store = <<>>
    /\ max_editors = DefaultMaxEditors
    /\ recency = <<>>
    /\ inserted = <<>>
    /\ ecOut = NoEditorCall

(***************************************************************************)
(* The environment: the clock, the editor saving files, toolchains being   *)
(* installed and removed.  Nothing is written while a call is running.     *)
(***************************************************************************)

\* The toolchain the project's builds resolve: `selected` of
\* select_toolchain when both toolchains are registered.
ProjectToolchain ==
    IF UsesGraphics(config) THEN "mingw32" ELSE Preferred(config.pref, Registry)

\* Something of kind k was written after a successful build.
Touch(k) == IF since.ok THEN [since EXCEPT !.touched = @ \cup {k}] ELSE since

Tick ==
    /\ pc = "idle" /\ clock < MaxClock
    /\ clock' = clock + 1
    /\ UNCHANGED <<nonBuildVars, srcMtime, hdrText, exe, tcFs, config, parVars, resVars>>

\* A source file of the project is written; its modification time is the
\* clock's, or the one the copy carries.
WriteSource(f, t) ==
    /\ pc = "idle" /\ f \in Range(config.files)
    /\ srcMtime' = [srcMtime EXCEPT ![f] = t]
    /\ since' = Touch("source")
    /\ UNCHANGED <<nonBuildVars, clock, hdrText, exe, tcFs, config, parVars, spawned, last>>

\* A header that a source file of the project reaches is written.
WriteHeader(h) ==
    /\ pc = "idle" /\ h \in ReachableHeaders(config)
    /\ hdrText' = [hdrText EXCEPT ![h] = 1 - @]
    /\ since' = Touch("header")
    /\ UNCHANGED <<nonBuildVars, clock, srcMtime, exe, tcFs, config, parVars, spawned, last>>

DeleteArtifact ==
    /\ pc = "idle" /\ exe.exists
    /\ exe' = [exists |-> FALSE, mtime |-> 0]
    /\ since' = Touch("other")
    /\ UNCHANGED <<nonBuildVars, clock, srcMtime, hdrText, tcFs, config, parVars, spawned, last>>

SetToolchainDir(d) ==
    /\ pc = "idle" /\ d # tcFs[ProjectToolchain]
    /\ tcFs' = [tcFs EXCEPT ![ProjectToolchain] = d]
    /\ since' = Touch("other")
    /\ UNCHANGED <<nonBuildVars, clock, srcMtime, hdrText, exe, config, parVars, spawned, last>>

(***************************************************************************)
(* core/builder.py: build_project, check_project, run_executable           *)
(***************************************************************************)

\* What subprocess.run(cmd) can do: the process runs and exits with 0 or
\* not, or the executable is missing and run raises.
RunOutcomes(tc) ==
    IF CompilerExists(tc, config.language, tcFs) THEN {"ok", "nonzero"} ELSE {"spawnerr"}

Started(out) == IF out = "spawnerr" THEN 0 ELSE 1

\* What went wrong in a subprocess.run with outcome out.
Fault(out) ==
    IF out = "spawnerr" THEN {"spawn"} ELSE IF out = "nonzero" THEN {"exit"} ELSE {}

\* The stderr of the result built after subprocess.run: result.stderr, or
\* the "... failed: {str(e)}" of the except branch.
Stderr(out) ==
    IF out = "spawnerr" THEN {"exception"}
    ELSE IF out = "nonzero" THEN {"compiler"} ELSE {}

\* `except Exception as e` (mutation: the exception of a failed spawn is
\* raised again).
ExceptReraise(out) == IF out = "spawnerr" THEN "raise" ELSE "return"

\* `except Exception as e` around subprocess.run: a result is returned.
Except(out) == "return"

\* The result of a call: the fields given, the others as in NoCall, and
\* what the call found.
Result(op, kind, force, fields) ==
    fields @@ [op |-> op, kind |-> kind, force |-> force,
               available |-> is_available(ProjectToolchain, tcFs),
               follows |-> since.ok, changed |-> since.touched,
               had_artifact |-> exe.exists] @@ NoCall

Raise(op, force) == Result(op, "raise", force, [success |-> FALSE])

Skipped(op, force) ==
    Result(op, "return", force, [success |-> TRUE, skipped |-> TRUE, exe_path |-> TRUE])

\* A call returns (or raises): its result goes to the caller, and a
\* build's outcome is what the next build follows.
Done(res) ==
    /\ last' = res
    /\ pc' = "returned"
    /\ spawned' = 0
    /\ since' = IF res.op \in BuildOps
                THEN [ok |-> (res.kind = "return" /\ res.success), touched |-> {}]
                ELSE since

\* The caller has the result.
TakeResult ==
    /\ pc = "returned"
    /\ pc' = "idle"
    /\ last' = NoCall
    /\ UNCHANGED <<nonBuildVars, fsVars, config, task, yielded, object_files,
                   compile_success, pool, toolchain, callForce, spawned, since>>

\* build_project(config, toolchains, force_rebuild), also reached from
\* build_project_parallel when the project has at most two files.
BuildProjectAs(op, force) ==
    LET r == select_toolchain(config, Registry, tcFs) IN
    IF r.kind = "raise"
    THEN Done(Raise(op, force)) /\ UNCHANGED exe
    ELSE IF UpToDate(config, force, srcMtime, exe)
    THEN Done([Skipped(op, force) EXCEPT !.profile_calls = 1]) /\ UNCHANGED exe
    ELSE \E out \in RunOutcomes(r.name) :
         /\ Done(Result(op, Except(out), force,
                         [success |-> (out = "ok"), exe_path |-> (out = "ok"),
                          command |-> build_command(config, r.name),
                          runs |-> <<build_command(config, r.name)>>,
                          profile_calls |-> 1,
                          spawned |-> Started(out),
                          artifact_written |-> (out = "ok"),
                          stderr |-> Stderr(out), fault |-> Fault(out)]))
         /\ exe' = IF out = "ok" THEN [exists |-> TRUE, mtime |-> clock] ELSE exe

BuildProject(force) ==
    /\ pc = "idle"
    /\ BuildProjectAs("build_project", force)
    /\ UNCHANGED <<nonBuildVars, clock, srcMtime, hdrText, tcFs, config, task, yielded,
                   object_files, compile_success, pool, toolchain, callForce>>

\* check_project(config, toolchains)
CheckProject ==
    /\ pc = "idle"
    /\ LET r == select_toolchain(config, Registry, tcFs) IN
       IF r.kind = "raise"
       THEN Done(Raise("check_project", FALSE))
       ELSE \E out \in RunOutcomes(r.name) :
            Done(Result("check_project", Except(out), FALSE,
                        [success |-> (out = "ok"),
                         command |-> check_command(config, r.name),
                         runs |-> <<check_command(config, r.name)>>,
                         profile_calls |-> 1,
                         spawned |-> Started(out),
                         stderr |-> Stderr(out), fault |-> Fault(out)]))
    /\ UNCHANGED <<nonBuildVars, fsVars, config, task, yielded, object_files,
                   compile_success, pool, toolchain, callForce>>

\* run_executable(config, toolchains): the program is started only when
\* the artifact exists.
RunExecutable ==
    /\ pc = "idle"
    /\ LET r == select_toolchain(config, Registry, tcFs) IN
       IF r.kind = "raise"
       THEN Done(Raise("run_executable", FALSE))
       ELSE IF ~exe.exists
       THEN Done(Result("run_executable", "return", FALSE, [command |-> <<"app.exe">>]))
       ELSE \E ok \in BOOLEAN :
            Done(Result("run_executable", "return", FALSE,
                        [success |-> ok, exe_path |-> TRUE,
                         command |-> <<"app.exe">>, spawned |-> 1]))
    /\ UNCHANGED <<nonBuildVars, fsVars, config, task, yielded, object_files,
                   compile_success, pool, toolchain, callForce>>

(***************************************************************************)
(* core/builder.py: build_project_parallel                                 *)
(***************************************************************************)

\* len(config.files) <= 2 takes the sequential build
SequentialThreshold == 2
\* min(4, os.cpu_count() or 1)
DefaultWorkerCap == 4

MaxWorkersArg == 2
\* The max_workers argument: 0 stands for None.
WorkerArgs == 0..MaxWorkersArg
\* What os.cpu_count() can report: 0 stands for None.
CpuCounts == {0, 1, 8}

Min(a, b) == IF a < b THEN a ELSE b

\* max_workers of the executor
PoolSize(mw, cpu) ==
    IF mw = 0 THEN Min(DefaultWorkerCap, IF cpu = 0 THEN 1 ELSE cpu) ELSE mw

\* build_project_parallel with at most two files: build_project.
BuildParallelSmall(force) ==
    /\ pc = "idle"
    /\ Len(config.files) <= SequentialThreshold
    /\ BuildProjectAs("build_project_parallel", force)
    /\ UNCHANGED <<nonBuildVars, clock, srcMtime, hdrText, tcFs, config, task, yielded,
                   object_files, compile_success, pool, toolchain, callForce>>

\* The futures dict (mutation: only the first file is submitted).
SubmitFirst(files) == [i \in {1} |-> "queued"]

\* The futures dict: executor.submit(_compile_single_source, f, ...) for
\* every f of config.files.
Submit(files) == [i \in DOMAIN files |-> "queued"]

\* build_project_parallel with more than two files, up to the submission
\* of one compile task per file: the toolchain is resolved, the up-to-date
\* test is made, the executor is created.
BuildParallelBegin(force, mw, cpu) ==
    /\ pc = "idle"
    /\ Len(config.files) > SequentialThreshold
    /\ LET r == select_toolchain(config, Registry, tcFs) IN
       IF r.kind = "raise"
       THEN /\ Done(Raise("build_project_parallel", force))
            /\ UNCHANGED <<task, yielded, object_files, compile_success, pool,
                           toolchain, callForce>>
       ELSE IF UpToDate(config, force, srcMtime, exe)
       THEN /\ Done(Skipped("build_project_parallel", force))
            /\ UNCHANGED <<task, yielded, object_files, compile_success, pool,
                           toolchain, callForce>>
       ELSE /\ pc' = "collect"
            /\ task' = Submit(config.files)
            /\ yielded' = {}
            /\ object_files' = <<>>
            /\ compile_success' = TRUE
            /\ pool' = PoolSize(mw, cpu)
            /\ toolchain' = r.name
            /\ callForce' = force
            /\ spawned' = 0
            /\ UNCHANGED <<last, since>>
    /\ UNCHANGED <<nonBuildVars, fsVars, config>>

\* The states of a finished task: the compiler exited with 0 ("ok") or not
\* ("fail"), or could not be started ("spawnfail").
Finished == {"ok", "fail", "spawnfail"}
Failed == {"fail", "spawnfail"}

Running == {i \in DOMAIN task : task[i] = "running"}
Queued  == {i \in DOMAIN task : task[i] = "queued"}

\* A worker thread of the pool takes the oldest queued task and calls
\* _compile_single_source, which starts the compiler (or fails to).
TaskStart(i) ==
    /\ pc \in {"collect", "shutdown"}
    /\ i \in Queued /\ \A j \in Queued : i <= j
    /\ Cardinality(Running) < pool
    /\ IF CompilerExists(toolchain, config.language, tcFs)
       THEN task' = [task EXCEPT ![i] = "running"] /\ spawned' = spawned + 1
       ELSE task' = [task EXCEPT ![i] = "spawnfail"] /\ UNCHANGED spawned
    /\ UNCHANGED <<nonBuildVars, fsVars, config, pc, yielded, object_files,
                   compile_success, pool, toolchain, callForce, last, since>>

\* The compiler of task i exits; _compile_single_source returns.
TaskFinish(i, ok) ==
    /\ pc \in {"collect", "shutdown"}
    /\ i \in Running
    /\ task' = [task EXCEPT ![i] = IF ok THEN "ok" ELSE "fail"]
    /\ UNCHANGED <<nonBuildVars, fsVars, config, pc, yielded, object_files,
                   compile_success, pool, toolchain, callForce, resVars>>

\* object_files.append(obj_file)
Collected(objs, i) == Append(objs, ObjFile(config.files[i]))

\* A failed task (mutation: it is skipped and the loop goes on).
AfterFailureContinue(done) == [success |-> TRUE, leave |-> done]

\* A failed task: `compile_success = False; break`
AfterFailure(done) == [success |-> FALSE, leave |-> TRUE]

\* One iteration of `for future in as_completed(futures)`: a finished
\* future that was not yielded yet is taken.
Collect(i) ==
    /\ pc = "collect"
    /\ i \in DOMAIN task /\ i \notin yielded /\ task[i] \in Finished
    /\ yielded' = yielded \cup {i}
    /\ LET done == (yielded' = DOMAIN task) IN
       IF task[i] = "ok"
       THEN /\ object_files' = Collected(object_files, i)
            /\ pc' = IF done THEN "shutdown" ELSE "collect"
            /\ UNCHANGED compile_success
       ELSE /\ compile_success' = (compile_success /\ AfterFailure(done).success)
            /\ pc' = IF AfterFailure(done).leave THEN "shutdown" ELSE "collect"
            /\ UNCHANGED object_files
    /\ UNCHANGED <<nonBuildVars, fsVars, config, task, pool, toolchain, callForce, resVars>>

\* all_stderr: what the loop appended from the futures it was handed, the
\* captured stderr of a compiler that exited nonzero and the str(e) that
\* _compile_single_source returns for a compiler that could not be started.
all_stderr ==
    {"compiler" : i \in {j \in yielded : task[j] = "fail"}}
        \cup {"exception" : i \in {j \in yielded : task[j] = "spawnfail"}}

\* What went wrong in the compile tasks of the call.
TaskFaults ==
    {"exit" : i \in {j \in DOMAIN task : task[j] = "fail"}}
        \cup {"spawn" : i \in {j \in DOMAIN task : task[j] = "spawnfail"}}

\* The commands of the compile tasks that were begun, in the order of
\* their submission, which is the order the pool begins them in.
CompileRuns ==
    LET begun == {i \in DOMAIN task : task[i] # "queued"}
    IN [k \in 1 .. Cardinality(begun) |->
            compile_command(config, toolchain, config.files[k])]

\* The variables of the call are released.
ParReset ==
    /\ task' = <<>>
    /\ yielded' = {}
    /\ object_files' = <<>>
    /\ compile_success' = TRUE
    /\ pool' = 0
    /\ toolchain' = "none"
    /\ callForce' = FALSE

\* Leaving the `with` block (mutation: shutdown(wait=False), the block is
\* left at once).
ExecutorExitNoWait == TRUE

\* Leaving the `with` block: ThreadPoolExecutor.__exit__ is
\* shutdown(wait=True), which returns when every submitted task has run,
\* the queued ones included.
ExecutorExit == \A i \in DOMAIN task : task[i] \in Finished

\* The `with` block is left; then the failure is returned, or the link
\* command is run.
BuildParallelEnd ==
    /\ pc = "shutdown"
    /\ ExecutorExit
    /\ LET failed == \E i \in DOMAIN task : task[i] \in Failed IN
       IF ~compile_success
       THEN /\ Done(Result("build_project_parallel", "return", callForce,
                           [success |-> FALSE, spawned |-> spawned,
                            runs |-> CompileRuns,
                            task_failed |-> failed,
                            stderr |-> all_stderr, fault |-> TaskFaults,
                            still_running |-> Cardinality(Running),
                            abandoned |-> Cardinality(DOMAIN task \ yielded)]))
            /\ UNCHANGED exe
       ELSE \E out \in RunOutcomes(toolchain) :
            /\ Done(Result("build_project_parallel", Except(out), callForce,
                           [success |-> (out = "ok"), exe_path |-> (out = "ok"),
                            command |-> link_command(config, toolchain, object_files),
                            runs |-> Append(CompileRuns,
                                link_command(config, toolchain, object_files)),
                            profile_calls |-> 1,
                            link_run |-> TRUE, spawned |-> spawned + Started(out),
                            task_failed |-> failed, artifact_written |-> (out = "ok"),
                            stderr |-> all_stderr \cup Stderr(out),
                            fault |-> TaskFaults \cup Fault(out),
                            still_running |-> Cardinality(Running),
                            abandoned |-> Cardinality(DOMAIN task \ yielded)]))
            /\ exe' = IF out = "ok" THEN [exists |-> TRUE, mtime |-> clock] ELSE exe
    /\ ParReset
    /\ UNCHANGED <<nonBuildVars, clock, srcMtime, hdrText, tcFs, config>>

(***************************************************************************)
(* Specification Spec: builds, checks and runs of one project, with the    *)
(* files and the toolchain changing between the calls.  The files of the   *)
(* console projects carry any modification times when the project is       *)
(* opened.                                                                 *)
(***************************************************************************)

InitCalls ==
    /\ pc = "idle"
    /\ task = <<>>
    /\ yielded = {}
    /\ object_files = <<>>
    /\ compile_success = TRUE
    /\ pool = 0
    /\ toolchain = "none"
    /\ callForce = FALSE
    /\ spawned = 0
    /\ last = NoCall
    /\ since = [ok |-> FALSE, touched |-> {}]

Init ==
    /\ SelQuiet
    /\ BloomQuiet
    /\ UIQuiet
    /\ DcQuiet
    /\ DiagQuiet
    /\ RegQuiet
    /\ SfQuiet /\ EcQuiet
    /\ config \in {c \in Projects : c.project_type = "console"}
    /\ clock = 0
    /\ srcMtime \in [Sources -> Stamps]
    /\ \A f \in Sources : f \notin Range(config.files) => srcMtime[f] = 0
    /\ hdrText = [h \in Headers |-> 0]
    /\ exe = [exists |-> FALSE, mtime |-> 0]
    /\ tcFs = [n \in ToolchainNames |-> Installed]
    /\ InitCalls

Next ==
    \/ Tick
    \/ \E f \in Sources, t \in Stamps : WriteSource(f, t)
    \/ \E h \in Headers : WriteHeader(h)
    \/ DeleteArtifact
    \/ \E d \in {Installed, Removed} : SetToolchainDir(d)
    \/ \E force \in BOOLEAN : BuildProject(force)
    \/ CheckProject
    \/ RunExecutable
    \/ \E force \in BOOLEAN : BuildParallelSmall(force)
    \/ \E force \in BOOLEAN : BuildParallelBegin(force, 1, 1)
    \/ \E i \in DOMAIN task : TaskStart(i)
    \/ \E i \in DOMAIN task, ok \in BOOLEAN : TaskFinish(i, ok)
    \/ \E i \in DOMAIN task : Collect(i)
    \/ BuildParallelEnd
    \/ TakeResult

Spec == Init /\ [][Next]_vars

(***************************************************************************)
(* Specification SpecCalls: every call of the builder on a filesystem that *)
(* does not change, with every pool size and every interleaving of the     *)
(* compile tasks.                                                          *)
(***************************************************************************)

InitFixed ==
    /\ SelQuiet
    /\ BloomQuiet
    /\ UIQuiet
    /\ DcQuiet
    /\ DiagQuiet
    /\ RegQuiet
    /\ SfQuiet /\ EcQuiet
    /\ config \in Projects
    /\ clock = 0
    /\ srcMtime = [f \in Sources |-> 0]
    /\ hdrText = [h \in Headers |-> 0]
    /\ exe \in {[exists |-> FALSE, mtime |-> 0], [exists |-> TRUE, mtime |-> 0]}
    /\ tcFs \in ToolchainFsStates
    /\ \A n \in ToolchainNames :
          n # ProjectToolchain => tcFs[n] = Installed
    /\ InitCalls

NextCalls ==
    \/ \E force \in BOOLEAN : BuildProject(force)
    \/ CheckProject
    \/ RunExecutable
    \/ \E force \in BOOLEAN : BuildParallelSmall(force)
    \/ \E force \in BOOLEAN, mw \in WorkerArgs, cpu \in CpuCounts :
            BuildParallelBegin(force, mw, cpu)
    \/ \E i \in DOMAIN task : TaskStart(i)
    \/ \E i \in DOMAIN task, ok \in BOOLEAN : TaskFinish(i, ok)
    \/ \E i \in DOMAIN task : Collect(i)
    \/ BuildParallelEnd
    \/ TakeResult

SpecCalls == InitFixed /\ [][NextCalls]_vars

(***************************************************************************)
(* Specification SpecSel: select_toolchain applied to every project,       *)
(* registry and filesystem state.                                          *)
(***************************************************************************)

InitSel ==
    /\ selCfg \in SelConfigs
    /\ selReg \in SUBSET ToolchainNames
    /\ selFs  \in ToolchainFsStates
    /\ selOut = NotCalled
    /\ BldQuiet
    /\ BloomQuiet
    /\ UIQuiet
    /\ DcQuiet
    /\ DiagQuiet
    /\ RegQuiet
    /\ SfQuiet /\ EcQuiet

SelectCall ==
    /\ selOut = NotCalled
    /\ selOut' = select_toolchain(selCfg, selReg, selFs)
    /\ UNCHANGED <<selCfg, selReg, selFs, bldVars, bloomVars, uiVars, dcVars, diagVars,
                   regVars, sfVars, ecVars>>

NextSel == SelectCall

SpecSel == InitSel /\ [][NextSel]_vars

\* The toolchain the selection rules choose for a project: 32-bit for
\* graphics, the named preference, 64-bit otherwise.
RuleChoice(cfg) ==
    IF cfg.project_type = "graphics" \/ cfg.graphics THEN "mingw32"
    ELSE IF cfg.pref \in ToolchainNames THEN cfg.pref
    ELSE "mingw64"

\* C1: for a project whose graphics feature is set (or whose type is
\* graphics) select_toolchain never returns anything but mingw32, whatever
\* the preference, and it does return mingw32 whenever mingw32 is registered
\* and available.
C1_GraphicsForcesMingw32 ==
    (selOut # NotCalled /\ (selCfg.graphics \/ selCfg.project_type = "graphics"))
        => /\ selOut.kind = "return" => selOut.name = "mingw32"
           /\ ("mingw32" \in selReg /\ selFs["mingw32"].bin /\ selFs["mingw32"].gpp)
                 => selOut = Returned("mingw32")

\* C1 witness: a graphics project with an explicit 64-bit preference, both
\* toolchains registered and installed, resolved to mingw32.
C1_Witness ==
    /\ selCfg.graphics /\ selCfg.pref = "mingw64"
    /\ selReg = ToolchainNames
    /\ is_available("mingw64", selFs)
    /\ selOut = Returned("mingw32")

\* C2: select_toolchain either returns the toolchain the selection rules
\* chose or raises; it never returns a toolchain of the other bitness.
C2_NoSilentFallback ==
    selOut.kind = "return" => selOut.name = RuleChoice(selCfg)

\* C21: for a project without graphics, select_toolchain returns nothing
\* but the toolchain an explicit preference names when the registry has it,
\* and nothing but mingw64 when the preference is auto (OpenMP or not); it
\* does return that toolchain when it is installed.
C21_PreferenceHonoured ==
    (selOut # NotCalled /\ ~selCfg.graphics /\ selCfg.project_type # "graphics")
        => /\ (selCfg.pref \in ToolchainNames /\ selCfg.pref \in selReg)
                => /\ selOut.kind = "return" => selOut.name = selCfg.pref
                   /\ selFs[selCfg.pref] = Installed => selOut = Returned(selCfg.pref)
           /\ selCfg.pref = "auto"
                => /\ selOut.kind = "return" => selOut.name = "mingw64"
                   /\ ("mingw64" \in selReg /\ selFs["mingw64"] = Installed)
                        => selOut = Returned("mingw64")

\* C22: select_toolchain returns exactly when the bin directory and the
\* compiler executable the project needs (gcc.exe for c, g++.exe for cpp) of
\* the toolchain it selected exist at the time of the call.
C22_AvailableIffCompilerExists ==
    LET sel == IF selCfg.graphics \/ selCfg.project_type = "graphics"
               THEN "mingw32" ELSE Preferred(selCfg.pref, selReg)
        needed == IF selCfg.language = "c" THEN selFs[sel].gcc ELSE selFs[sel].gpp
    IN (selOut # NotCalled /\ sel \in selReg)
            => (selOut.kind = "return" <=> (selFs[sel].bin /\ needed))

(***************************************************************************)
(* Properties of build_project_parallel                                    *)
(***************************************************************************)

\* The object files of the project in the declaration order of config.files.
DeclaredObjects == [i \in DOMAIN config.files |-> ObjFile(config.files[i])]

\* C3: the object files of the link command of build_project_parallel are
\* in the declaration order of config.files, whichever compile task
\* finishes first.
C3_LinkOrderIsDeclarationOrder ==
    (last.op = "build_project_parallel" /\ last.link_run)
        => SubSeq(last.command, 2, Len(config.files) + 1) = DeclaredObjects

\* C4: when a compile task of build_project_parallel (more than 2 sources)
\* has failed, the call returns success=false and exe_path=None, the link
\* command was not run and no artifact was written; so the link command is
\* run only when every compile task succeeded.
C4_FailedCompileNeverLinks ==
    (last.op = "build_project_parallel" /\ Len(config.files) > SequentialThreshold
        /\ last.task_failed)
        => /\ last.kind = "return"
           /\ ~last.success
           /\ ~last.exe_path
           /\ ~last.link_run
           /\ ~last.artifact_written

\* C4 witness: all three compilers were started, one failed, and the call
\* returned without linking.
C4_Witness ==
    /\ last.op = "build_project_parallel" /\ last.task_failed
    /\ last.spawned = 3 /\ ~last.link_run /\ ~last.success

(***************************************************************************)
(* Properties of the rebuild decision                                      *)
(***************************************************************************)

\* C5: a build that follows a successful build, with force_rebuild=false
\* and nothing written in between, returns skipped=true, success=true and
\* an empty command, and starts no subprocess.
C5_SecondBuildSkipped ==
    (last.op \in BuildOps /\ last.follows /\ last.changed = {} /\ ~last.force)
        => /\ last.kind = "return"
           /\ last.skipped /\ last.success
           /\ last.command = <<>>
           /\ last.spawned = 0

\* C6: a build with force_rebuild=false that follows a successful build
\* and the writing of a project file, or of a header reachable from one,
\* returns skipped=false.
C6_ModificationForcesRebuild ==
    (last.op \in BuildOps /\ last.follows /\ ~last.force /\ last.kind = "return"
        /\ last.changed \cap {"source", "header"} # {})
        => ~last.skipped

(***************************************************************************)
(* Properties of the order of toolchain resolution and subprocess work     *)
(***************************************************************************)

\* C10: in build_project, build_project_parallel, check_project and
\* run_executable, when the resolved toolchain is not available the call
\* raises and has started no subprocess; a subprocess is started only with
\* a toolchain that was resolved and found available.
C10_ToolchainResolvedFirst ==
    /\ (last.kind # "none" /\ ~last.available)
            => (last.kind = "raise" /\ last.spawned = 0)
    /\ spawned > 0 => (toolchain \in ToolchainNames /\ is_available(toolchain, tcFs))

\* C10 witness: build_project_parallel of the three-file C project raised
\* although the gcc.exe it would run exists (g++.exe is missing).
C10_Witness ==
    /\ last.op = "build_project_parallel" /\ last.kind = "raise"
    /\ Len(config.files) > SequentialThreshold
    /\ CompilerExists(ProjectToolchain, config.language, tcFs)
    /\ last.spawned = 0

\* C15: a check_project call leaves the artifact, the source files and the
\* record of the last build as they were, so that a build after it is
\* skipped exactly when it would have been without the check; its result
\* has exe_path=None and skipped=false, and the command it ran has
\* -fsyntax-only and no -o.
C15_CheckLeavesBuildStateAlone ==
    [][(pc = "idle" /\ last'.op = "check_project")
            => /\ exe' = exe /\ srcMtime' = srcMtime /\ hdrText' = hdrText
               /\ since' = since
               /\ \A force \in BOOLEAN :
                     UpToDate(config', force, srcMtime', exe')
                        = UpToDate(config, force, srcMtime, exe)
               /\ ~last'.exe_path /\ ~last'.skipped
               /\ ~last'.link_run /\ ~last'.artifact_written
               /\ last'.kind = "return"
                     => /\ "-fsyntax-only" \in Range(last'.command)
                        /\ "-o" \notin Range(last'.command)]_vars

\* C15 witness: check_project ran the compiler with success on a project
\* that has no artifact, and there is still none.
C15_Witness ==
    /\ last.op = "check_project" /\ last.success /\ last.spawned = 1
    /\ ~exe.exists

\* C13: when build_project_parallel returns, with success or with failure,
\* no compile subprocess it started is still running.
C13_NoSubprocessOutlivesCall ==
    last.op = "build_project_parallel" => last.still_running = 0

\* C13 witness: the loop ended at a failed task while two futures had not
\* been handed to it; all three compilers were started and none was running
\* when the call returned.
C13_Witness ==
    /\ last.op = "build_project_parallel" /\ last.task_failed
    /\ last.abandoned = 2 /\ last.spawned = 3 /\ last.still_running = 0

\* C14: once the loop of build_project_parallel has seen a failed compile
\* task and stopped, no compile task that had not begun is started any more.
C14_FailFastStartsNothing ==
    [][(pc = "shutdown" /\ ~compile_success /\ pc' = "shutdown")
            => \A i \in Queued : task'[i] = "queued"]_vars

\* C12: a build_project or build_project_parallel call that finds no
\* artifact is never skipped, whatever the modification times of the
\* sources; when it returns it has started the compiler, or tried to and
\* reports the failed start.
C12_MissingArtifactRebuilds ==
    (last.op \in BuildOps /\ ~last.had_artifact)
        => /\ ~last.skipped
           /\ last.kind = "return" => (last.spawned >= 1 \/ "spawn" \in last.fault)

\* C12 witness: after a successful build the artifact was deleted and no
\* source was written; the build with force_rebuild=false ran the compiler.
C12_Witness ==
    /\ last.op \in BuildOps /\ ~last.had_artifact /\ ~last.force
    /\ last.follows /\ last.changed = {"other"}
    /\ last.kind = "return" /\ ~last.skipped /\ last.spawned >= 1

\* C11: in build_project, build_project_parallel and check_project, once
\* the toolchain is resolved, a compiler or linker that could not be started
\* or that exited nonzero gives a returned result with success=false and a
\* stderr that holds the exception's text (failed spawn) or the captured
\* output (nonzero exit); the call does not raise.
C11_FailuresAreResults ==
    /\ (last.op \in BuildOps \cup {"check_project"} /\ last.available)
            => last.kind = "return"
    /\ last.fault # {}
            => /\ last.kind = "return" /\ ~last.success
               /\ "spawn" \in last.fault => "exception" \in last.stderr
               /\ "exit" \in last.fault => "compiler" \in last.stderr

\* C11 witness: the toolchain of the C project is available (bin/ and
\* g++.exe exist) but its gcc.exe is missing, so no compile task of
\* build_project_parallel could start its compiler, and the call returned.
C11_Witness ==
    /\ last.op = "build_project_parallel" /\ last.available
    /\ last.fault = {"spawn"} /\ last.kind = "return" /\ last.spawned = 0

\* C23: the compile tasks of build_project_parallel running at the same
\* time are never more than the pool size, and the pool is created with
\* min(cap, CPU count) workers, where the cap is the caller's max_workers
\* or 4 and an undetected CPU count is 1.
C23_PoolBoundedByCapAndCpus ==
    /\ [](pc \in {"collect", "shutdown"} => Cardinality(Running) <= pool)
    /\ [][\A force \in BOOLEAN, mw \in WorkerArgs, cpu \in CpuCounts :
            (BuildParallelBegin(force, mw, cpu) /\ pc' = "collect")
                => pool' = Min(IF mw = 0 THEN DefaultWorkerCap ELSE mw,
                               IF cpu = 0 THEN 1 ELSE cpu)]_vars

C25_OneProfileRecordPerAttempt ==
    (last.op \in BuildOps \cup {"check_project"} /\ last.kind = "return")
        => last.profile_calls * maybe_log_profile(TRUE) = 1

\* C26: in every BuildResult of build_project and build_project_parallel
\* the command is empty exactly when the build was skipped, and a build
\* that ran a compiler command carries a command it ran.
C26_CommandEmptyIffSkipped ==
    (last.op \in BuildOps /\ last.kind = "return")
        => /\ last.command = <<>> <=> last.skipped
           /\ last.runs # <<>> => last.command \in Range(last.runs)

\* C27: the command of build_command and the link command of
\* build_project_parallel end with -lbgi -lgdi32 -lcomdlg32 -luuid -lole32
\* -loleaut32, each once and in that order, when the graphics feature is
\* set, and hold none of the six otherwise.
C27_GraphicsLibsLastInOrder ==
    (last.op \in BuildOps /\ last.kind = "return" /\ last.command # <<>>)
        => LET cmd == last.command
               n == Len(cmd)
               six == <<"-lbgi", "-lgdi32", "-lcomdlg32", "-luuid", "-lole32",
                        "-loleaut32">>
           IN IF config.graphics
              THEN /\ n >= 6
                   /\ SubSeq(cmd, n - 5, n) = six
                   /\ \A k \in 1 .. n - 6 : cmd[k] \notin Range(six)
              ELSE Range(cmd) \cap Range(six) = {}

\* C27 witness: the link command of a parallel build of the project with
\* graphics and OpenMP was run.
C27_Witness ==
    /\ last.op = "build_project_parallel" /\ last.link_run /\ last.success
    /\ config.graphics /\ config.openmp
    /\ last.command[Len(last.command)] = "-loleaut32"

\* C28: every command a build or check gave to subprocess.run holds
\* -fopenmp exactly when the project asks for OpenMP and the command's
\* toolchain supports it; a project with graphics and OpenMP is compiled
\* by mingw32 without -fopenmp.
C28_OpenmpIffRequestedAndSupported ==
    (last.op \in BuildOps \cup {"check_project"} /\ last.kind = "return")
        => \A k \in DOMAIN last.runs :
              LET cmd == last.runs[k]
                  tc == IF cmd[1] \in {"mingw64/bin/gcc.exe", "mingw64/bin/g++.exe"}
                        THEN "mingw64" ELSE "mingw32"
              IN /\ "-fopenmp" \in Range(cmd)
                    <=> (config.openmp /\ get_toolchains[tc].supports_openmp)
                 /\ (config.graphics /\ config.openmp)
                    => (tc = "mingw32" /\ "-fopenmp" \notin Range(cmd))

\* C28 witness: the three compile commands and the link command of the
\* console project with OpenMP all hold -fopenmp.
C28_Witness ==
    /\ last.op = "build_project_parallel" /\ last.success
    /\ config.openmp /\ ~config.graphics /\ Len(last.runs) = 4
    /\ \A k \in 1 .. 4 : "-fopenmp" \in Range(last.runs[k])

\* The file a compiler command writes: the argument after -o.
OutputOf(cmd) == cmd[(CHOOSE k \in DOMAIN cmd : cmd[k] = "-o") + 1]

\* C36: in build_project_parallel with more than 2 sources, the compile
\* commands of distinct source files write distinct object files, and the
\* link command of a successful build lists one object file per source file.
C36_DistinctObjectFiles ==
    (last.op = "build_project_parallel" /\ last.kind = "return" /\ ~last.skipped
        /\ Len(config.files) > SequentialThreshold)
        => LET runs == last.runs
               Compiles == {k \in DOMAIN runs : "-c" \in Range(runs[k])}
               Linked == Range(SubSeq(last.command, 2, Len(config.files) + 1))
           IN /\ \A i, j \in Compiles :
                    i # j => OutputOf(runs[i]) # OutputOf(runs[j])
              /\ last.link_run => Cardinality(Linked) = Len(config.files)

(***************************************************************************)
(* FileExistenceCache: the calls add, might_exist and exists, and files    *)
(* being created and deleted on the disk behind it.                        *)
(***************************************************************************)
CacheCall(op, p, result, checked) ==
    [op |-> op, path |-> p, result |-> result, checked |-> checked]

\* The state change of add(path).
AddToCache(p) ==
    /\ bits' = add_bits(bits, p, 0)
    /\ confirmed_exists' = confirmed_exists \cup {p}
    /\ added' = added \cup {p}

\* add(path)
CacheAdd(p) ==
    /\ AddToCache(p)
    /\ bloomOut' = CacheCall("add", p, TRUE, FALSE)
    /\ UNCHANGED <<bloomHash, disk, verified, nonBloomVars>>

\* might_exist(path)
CacheMightExist(p) ==
    /\ bloomOut' = CacheCall("might_exist", p, might_exist(bits, p), FALSE)
    /\ UNCHANGED <<bits, confirmed_exists, added, bloomHash, disk, verified,
                   nonBloomVars>>

\* exists(path)
CacheExists(p) ==
    /\ IF p \in confirmed_exists
       THEN /\ bloomOut' = CacheCall("exists", p, TRUE, FALSE)
            /\ UNCHANGED <<bits, confirmed_exists, added, verified>>
       ELSE IF ~might_exist(bits, p)
       THEN /\ bloomOut' = CacheCall("exists", p, FALSE, FALSE)
            /\ UNCHANGED <<bits, confirmed_exists, added, verified>>
       ELSE IF p \in disk
       THEN /\ AddToCache(p)
            /\ verified' = verified \cup {p}
            /\ bloomOut' = CacheCall("exists", p, TRUE, TRUE)
       ELSE /\ bloomOut' = CacheCall("exists", p, FALSE, TRUE)
            /\ UNCHANGED <<bits, confirmed_exists, added, verified>>
    /\ UNCHANGED <<bloomHash, disk, nonBloomVars>>

\* A file is created.
DiskCreate(p) ==
    /\ p \notin disk
    /\ disk' = disk \cup {p}
    /\ UNCHANGED <<bits, confirmed_exists, added, bloomHash, bloomOut, verified,
                   nonBloomVars>>

\* A file is deleted.
DiskDelete(p) ==
    /\ p \in disk
    /\ disk' = disk \ {p}
    /\ UNCHANGED <<bits, confirmed_exists, added, bloomHash, bloomOut, verified,
                   nonBloomVars>>

\* FileExistenceCache(size, num_hashes): an empty filter; any hash function,
\* any disk.
InitBloom ==
    /\ bits = EmptyBits
    /\ confirmed_exists = {}
    /\ bloomHash \in HashFunctions
    /\ disk \in SUBSET CachePaths
    /\ added = {}
    /\ bloomOut = NoCacheCall
    /\ verified = {}
    /\ SelQuiet
    /\ BldQuiet
    /\ UIQuiet
    /\ DcQuiet
    /\ DiagQuiet
    /\ RegQuiet
    /\ SfQuiet /\ EcQuiet

NextBloom ==
    \/ \E p \in CachePaths : CacheAdd(p)
    \/ \E p \in CachePaths : CacheMightExist(p)
    \/ \E p \in CachePaths : CacheExists(p)
    \/ \E p \in CachePaths : DiskCreate(p)
    \/ \E p \in CachePaths : DiskDelete(p)

SpecBloom == InitBloom /\ [][NextBloom]_vars

\* C7: after add(p), whatever add, might_exist and exists calls follow,
\* might_exist(p) is true: every might_exist call on an added path returns
\* true, and the filter answers true for every added path in every state.
C7_NoFalseNegatives ==
    /\ \A p \in added : might_exist(bits, p)
    /\ (bloomOut.op = "might_exist" /\ bloomOut.path \in added) => bloomOut.result

\* C7 witness: might_exist was asked about an added path after both paths
\* were added, and the two paths share a bit of the filter.
C7_Witness ==
    /\ bloomOut.op = "might_exist"
    /\ bloomOut.result
    /\ added = CachePaths
    /\ \E i, j \in Seeds : hash("util.h", i) = hash("types.h", j)

\* C19: exists(p) returns true only for a path that a Path.exists() made
\* by exists() has confirmed, and _confirmed_exists holds only such paths.
C19_ExistsOnlyAfterDiskCheck ==
    /\ (bloomOut.op = "exists" /\ bloomOut.result) => bloomOut.path \in verified
    /\ bloomOut.op = "exists" => confirmed_exists \subseteq verified

\* C37: exists(p) never returns false for a path that is on the filesystem at
\* the time of the call, whatever add and exists calls and file creations
\* came before: its answer for an existing path is that of Path.exists().
C37_ExistsAgreesWithDiskForExistingPath ==
    [][\A p \in CachePaths :
          (CacheExists(p) /\ p \in disk) => bloomOut'.result]_vars

(***************************************************************************)
(* app.py: MainWindow.start_build_task, BuildWorker.run in its QThread,    *)
(* and the slots on_build_finished and on_build_error.  Signals a worker   *)
(* emits are delivered to MainWindow and to the QThread object through the *)
(* event queue of the GUI thread.  start_build_task has two places where   *)
(* it waits: the question dialog, which runs an event loop, and            *)
(* QThread.wait(3000), which blocks the GUI thread.                        *)
(***************************************************************************)
\* A build worker is running: its thread was started and run has not returned.
InFlight == \E b \in Builds : thread[b] \in {"started", "running"}

\* QThread.quit() on the thread of build b, applied to the thread states th
\* and the pending quits q: an idle event loop exits, a loop that is not yet
\* running exits as soon as worker.run returns.
quit(th, q, b) ==
    IF b = 0 THEN <<th, q>>
    ELSE IF th[b] = "idle" THEN <<[th EXCEPT ![b] = "finished"], q>>
    ELSE IF th[b] \in {"started", "running"} THEN <<th, [q EXCEPT ![b] = TRUE]>>
    ELSE <<th, q>>

\* Where the thread of build b goes when worker.run returns.
AfterRun(b) == IF quitReq[b] THEN "finished" ELSE "idle"

\* The tail of start_build_task (lines 945-977) on thread states th: a new
\* thread and worker are created, stored, and the thread is started.
StartNewBuild(th, inflight, confirmed, run) ==
    /\ builds' = builds + 1
    /\ run_after' = [run_after EXCEPT ![builds + 1] = run]
    /\ thread' = [th EXCEPT ![builds + 1] = "started"]
    /\ current_build_thread' = builds + 1
    /\ current_build_worker' = builds + 1
    /\ build_in_progress' = TRUE
    /\ mainpc' = "idle"
    /\ req' = [kind |-> "done", in_flight |-> inflight, confirmed |-> confirmed,
               started |-> TRUE, unchanged |-> FALSE, run |-> run]

\* on_build_project (run FALSE) or on_build_and_run (run TRUE, which sets
\* _pending_run_after_build first) calls build_current and so
\* start_build_task: with the flag set it asks the question, otherwise it
\* starts the build.
StartBuildTask(run) ==
    /\ mainpc = "idle"
    /\ builds < MaxBuilds
    /\ pending_run_after_build' = (run \/ pending_run_after_build)
    /\ IF build_in_progress
       THEN /\ mainpc' = "asking"
            /\ req' = [kind |-> "asking", in_flight |-> InFlight,
                       confirmed |-> FALSE, started |-> FALSE, unchanged |-> TRUE,
                       run |-> run]
            /\ UNCHANGED <<build_in_progress, current_build_thread,
                           current_build_worker, thread, builds, run_after>>
       ELSE StartNewBuild(thread, InFlight, FALSE, run)
    /\ UNCHANGED <<quitReq, should_stop, proc, events, launch, nonUIVars>>

\* The reply No (the default button): start_build_task returns.
ReplyNo ==
    /\ mainpc = "asking"
    /\ mainpc' = "idle"
    /\ req' = [req EXCEPT !.kind = "done"]
    /\ UNCHANGED <<build_in_progress, current_build_thread, current_build_worker,
                   thread, quitReq, should_stop, proc, events, builds,
                   pending_run_after_build, run_after, launch, nonUIVars>>

\* The reply Yes: stop(), quit(), then wait(3000) if the thread still runs;
\* with no thread to wait for, the references are cleared and the new build
\* is started at once.
ReplyYes ==
    /\ mainpc = "asking"
    /\ should_stop' = IF current_build_worker # 0
                      THEN [should_stop EXCEPT ![current_build_worker] = TRUE]
                      ELSE should_stop
    /\ LET q == quit(thread, quitReq, current_build_thread) IN
       /\ quitReq' = q[2]
       /\ IF current_build_thread # 0
               /\ q[1][current_build_thread] \in {"started", "running"}
          THEN /\ mainpc' = "waiting"
               /\ thread' = q[1]
               /\ req' = [req EXCEPT !.confirmed = TRUE]
               /\ UNCHANGED <<build_in_progress, current_build_thread,
                              current_build_worker, builds, run_after>>
          ELSE StartNewBuild(q[1], req.in_flight, TRUE, req.run)
    /\ UNCHANGED <<proc, events, pending_run_after_build, launch, nonUIVars>>

\* wait(3000) returns: the thread has finished, or the three seconds are over
\* and the thread is terminated (its compiler subprocess is not).  Then the
\* flag and the references are cleared and the new build is started.
WaitReturn ==
    /\ mainpc = "waiting"
    /\ LET t == current_build_thread
           th == IF thread[t] \in {"started", "running"}
                 THEN [thread EXCEPT ![t] = "terminated"]
                 ELSE thread
       IN StartNewBuild(th, req.in_flight, TRUE, req.run)
    /\ UNCHANGED <<quitReq, should_stop, proc, events, pending_run_after_build,
                   launch, nonUIVars>>

BuildOutcomes == {"raise", "skip", "spawn"}

\* BuildWorker.run is entered: build_project or check_project raises (error
\* is emitted), returns the up-to-date result without a subprocess (finished
\* is emitted with success), or starts the compiler.  finished is connected to on_build_finished and to
\* thread.quit, error to on_build_error only.
WorkerRun(b, out) ==
    /\ thread[b] = "started"
    /\ IF out = "spawn"
       THEN /\ thread' = [thread EXCEPT ![b] = "running"]
            /\ proc' = [proc EXCEPT ![b] = "running"]
            /\ UNCHANGED events
       ELSE /\ thread' = [thread EXCEPT ![b] = AfterRun(b)]
            /\ events' = IF out = "raise"
                         THEN Append(events, <<"error", b>>)
                         ELSE events \o << <<"finished", b, TRUE>>, <<"quit", b>> >>
            /\ UNCHANGED proc
    /\ UNCHANGED <<build_in_progress, current_build_thread, current_build_worker,
                   mainpc, quitReq, should_stop, builds, req,
                   pending_run_after_build, run_after, launch, nonUIVars>>

\* The compiler subprocess of build b exits, whether or not the thread that
\* started it is still there.
ProcExit(b) ==
    /\ proc[b] = "running"
    /\ proc' = [proc EXCEPT ![b] = "exited"]
    /\ UNCHANGED <<build_in_progress, current_build_thread, current_build_worker,
                   mainpc, thread, quitReq, should_stop, events, builds, req,
                   pending_run_after_build, run_after, launch, nonUIVars>>

\* subprocess.run returned in the worker of build b: run emits finished with
\* the result (success ok, the compiler's exit status) and returns.
WorkerReturn(b, ok) ==
    /\ thread[b] = "running"
    /\ proc[b] = "exited"
    /\ thread' = [thread EXCEPT ![b] = AfterRun(b)]
    /\ events' = events \o << <<"finished", b, ok>>, <<"quit", b>> >>
    /\ UNCHANGED <<build_in_progress, current_build_thread, current_build_worker,
                   mainpc, quitReq, should_stop, proc, builds, req,
                   pending_run_after_build, run_after, launch, nonUIVars>>

\* on_build_finished and on_build_error: both clear the flag and the
\* references, whichever build the signal comes from.
OnBuildEnded ==
    /\ build_in_progress' = FALSE
    /\ current_build_thread' = 0
    /\ current_build_worker' = 0

\* The tail of on_build_finished for the result of build b: a successful
\* result with _pending_run_after_build set resets it and calls run_current.
RunAfterBuild(b, ok) ==
    IF ok /\ pending_run_after_build
    THEN /\ pending_run_after_build' = FALSE
         /\ launch' = [by |-> b, success |-> ok]
    ELSE UNCHANGED <<pending_run_after_build, launch>>

\* The GUI thread's event loop (also the one the question dialog runs)
\* delivers the oldest queued signal.
Deliver ==
    /\ mainpc \in {"idle", "asking"}
    /\ events # <<>>
    /\ events' = Tail(events)
    /\ LET e == Head(events) IN
       IF e[1] = "quit"
       THEN /\ thread' = quit(thread, quitReq, e[2])[1]
            /\ quitReq' = quit(thread, quitReq, e[2])[2]
            /\ UNCHANGED <<build_in_progress, current_build_thread,
                           current_build_worker, pending_run_after_build, launch>>
       ELSE /\ OnBuildEnded
            /\ IF e[1] = "finished"
               THEN RunAfterBuild(e[2], e[3])
               ELSE UNCHANGED <<pending_run_after_build, launch>>
            /\ UNCHANGED <<thread, quitReq>>
    /\ UNCHANGED <<mainpc, should_stop, proc, builds, req, run_after,
                   nonUIVars>>

InitUI ==
    /\ UIQuiet
    /\ DcQuiet
    /\ DiagQuiet
    /\ RegQuiet
    /\ SfQuiet /\ EcQuiet
    /\ SelQuiet
    /\ BldQuiet
    /\ BloomQuiet

NextUI ==
    \/ \E run \in BOOLEAN : StartBuildTask(run)
    \/ ReplyNo
    \/ ReplyYes
    \/ WaitReturn
    \/ \E b \in Builds, out \in BuildOutcomes : WorkerRun(b, out)
    \/ \E b \in Builds : ProcExit(b)
    \/ \E b \in Builds, ok \in BOOLEAN : WorkerReturn(b, ok)
    \/ Deliver

SpecUI == InitUI /\ [][NextUI]_vars

\* C8: a start_build_task call made while a build worker is running, and
\* not answered with Yes, starts no new thread or worker and leaves the
\* flag and the thread and worker references as they were.
C8_UnconfirmedRequestRejected ==
    (req.kind = "done" /\ req.in_flight /\ ~req.confirmed)
        => (~req.started /\ req.unchanged)

\* C9: at no time do compiler subprocesses of two different build requests
\* run at the same time.
C9_BuildsSerialized ==
    Cardinality({b \in Builds : proc[b] = "running"}) <= 1

\* C33: the build-in-flight flag is true whenever a build worker is running:
\* a finished or error notification of a build that was stopped and replaced
\* never clears the flag or the thread and worker references of the build
\* that replaced it.
C33_FlagCoversRunningWorker ==
    \A b \in Builds :
        thread[b] \in {"started", "running"}
            => (build_in_progress /\ current_build_thread # 0
                    /\ current_build_worker # 0)

\* The GUI event loop delivers queued signals, wait(3000) returns, a started
\* thread enters worker.run, the compiler exits and subprocess.run returns.
SpecUILive ==
    /\ SpecUI
    /\ WF_vars(Deliver)
    /\ WF_vars(WaitReturn)
    /\ \A b \in Builds : /\ WF_vars(\E out \in BuildOutcomes : WorkerRun(b, out))
                         /\ WF_vars(ProcExit(b))
                         /\ WF_vars(\E ok \in BOOLEAN : WorkerReturn(b, ok))

\* C34: after every build attempt, whether the worker reported finished or
\* error, the worker thread eventually stops running: no thread stays in its
\* event loop after worker.run returned.
C34_EndedBuildThreadStops ==
    \A b \in Builds :
        (thread[b] = "idle") ~> (thread[b] \in {"finished", "terminated"})

\* C35: on_build_finished launches the program only for a build that was
\* itself requested by on_build_and_run and that succeeded; a build-and-run
\* request whose build failed or raised does not make a later plain build
\* launch it.
C35_LaunchOnlyForOwnRequest ==
    launch.by # 0 => (run_after[launch.by] /\ launch.success)

(***************************************************************************)
(* core/builder.py: DependencyCache.__init__ with _load, add_dependency    *)
(* and needs_rebuild.  One iteration of the `while queue` loop is one      *)
(* step.  queue.extend(set) appends the members of a set in the order the  *)
(* set iterates them, which is any order.                                  *)
(***************************************************************************)

\* DependencyCache._load(): file_hashes is assigned before dependencies,
\* inside one try whose except branch passes.
load(cf) ==
    IF cf.kind # "json" \/ ~cf.hashes_ok
    THEN [file_hashes |-> NoHashes, dependencies |-> NoDeps, deps_default |-> TRUE]
    ELSE IF ~cf.deps_ok
    THEN [file_hashes |-> cf.hashes, dependencies |-> NoDeps, deps_default |-> TRUE]
    ELSE [file_hashes |-> cf.hashes, dependencies |-> cf.deps, deps_default |-> FALSE]

\* DependencyCache._check_hash(path): the answer and file_hashes after it.
check_hash(d, h, p) ==
    IF d[p] = "missing" THEN [ok |-> FALSE, hashes |-> h]
    ELSE IF h[p] # hash_file(d, p)
    THEN [ok |-> FALSE, hashes |-> [h EXCEPT ![p] = hash_file(d, p)]]
    ELSE [ok |-> TRUE, hashes |-> h]

\* The orders in which a set can be iterated.
Orders(S) == {q \in [1 .. Cardinality(S) -> S] : Range(q) = S}

\* `current in visited` (mutation: the test is left out).
SeenNever(cur, vis) == FALSE

\* `if current in visited: continue`
Seen(cur, vis) == cur \in vis

\* The files reachable from src through the edges depsOf, src included.
Reach(depsOf, src) ==
    LET R[n \in 0 .. Cardinality(DcFiles)] ==
            IF n = 0 THEN {src}
            ELSE R[n - 1] \cup UNION {depsOf[p] : p \in R[n - 1]}
    IN R[Cardinality(DcFiles)]

\* File p is missing, has no stored digest, or its digest differs from the
\* stored one.
Stale(d, h, p) == d[p] = "missing" \/ h[p] = "none" \/ h[p] # hash_file(d, p)

\* Some file reachable from src is stale, in the current state.
SomeReachableStale(src) ==
    \E p \in Reach(dependencies.of, src) : Stale(dcText, file_hashes, p)

DcCall(kind, op, src, result, expected, pristine) ==
    [kind |-> kind, op |-> op, source |-> src, result |-> result,
     expected |-> expected, pristine |-> pristine]

\* DependencyCache(cache_file)
Construct ==
    /\ dcPc = "new"
    /\ dcPc' = "ready"
    /\ file_hashes' = load(cache_file).file_hashes
    /\ dependencies' = load(cache_file).dependencies
    /\ deps_default' = load(cache_file).deps_default
    /\ dcOut' = DcCall("constructed", "init", "none", FALSE, FALSE, FALSE)
    /\ UNCHANGED <<cache_file, dcText, queue, visited, checks, nonDcVars>>

\* add_dependency(source, header): self.dependencies[source].add(header),
\* a KeyError when dependencies is a plain dict without the key.
AddDependency(src, h) ==
    /\ dcPc = "ready"
    /\ IF src \notin dependencies.keys /\ ~deps_default
       THEN /\ dcOut' = DcCall("raise", "add_dependency", src, FALSE, FALSE, FALSE)
            /\ UNCHANGED dependencies
       ELSE /\ dcOut' = DcCall("return", "add_dependency", src, FALSE, FALSE, FALSE)
            /\ dependencies' =
                  [keys |-> dependencies.keys \cup {src},
                   of |-> [dependencies.of EXCEPT ![src] = @ \cup {h}]]
    /\ UNCHANGED <<cache_file, dcText, file_hashes, deps_default, dcPc, queue,
                   visited, checks, nonDcVars>>

\* needs_rebuild(source) up to the loop: the first _check_hash(source).
NeedsRebuildBegin(src) ==
    /\ dcPc = "ready"
    /\ LET c == check_hash(dcText, file_hashes, src)
           expected == SomeReachableStale(src)
           pristine == (dcOut.kind = "constructed")
       IN /\ file_hashes' = c.hashes
          /\ checks' = [f \in DcFiles |-> IF f = src THEN 1 ELSE 0]
          /\ visited' = {}
          /\ IF c.ok
             THEN /\ dcPc' = "bfs"
                  /\ queue' = <<src>>
                  /\ dcOut' = DcCall("running", "needs_rebuild", src, FALSE,
                                     expected, pristine)
             ELSE /\ dcPc' = "ready"
                  /\ queue' = <<>>
                  /\ dcOut' = DcCall("return", "needs_rebuild", src, TRUE,
                                     expected, pristine)
    /\ UNCHANGED <<cache_file, dcText, dependencies, deps_default, nonDcVars>>

\* needs_rebuild returns result, or raises.
NeedsRebuildEnd(kind, result) ==
    /\ dcPc' = "ready"
    /\ queue' = <<>>
    /\ dcOut' = [dcOut EXCEPT !.kind = kind, !.result = result]

\* One iteration of `while queue`, or its end when the queue is empty.
BfsStep ==
    /\ dcPc = "bfs"
    /\ IF queue = <<>>
       THEN /\ NeedsRebuildEnd("return", FALSE)
            /\ UNCHANGED <<file_hashes, dependencies, visited, checks>>
       ELSE LET cur == Head(queue) IN
            IF Seen(cur, visited)
            THEN /\ queue' = Tail(queue)
                 /\ UNCHANGED <<file_hashes, dependencies, visited, checks, dcPc, dcOut>>
            ELSE LET c == check_hash(dcText, file_hashes, cur) IN
                 /\ visited' = visited \cup {cur}
                 /\ checks' = [checks EXCEPT ![cur] = @ + 1]
                 /\ file_hashes' = c.hashes
                 /\ IF ~c.ok
                    THEN NeedsRebuildEnd("return", TRUE) /\ UNCHANGED dependencies
                    ELSE IF cur \notin dependencies.keys /\ ~deps_default
                    THEN NeedsRebuildEnd("raise", FALSE) /\ UNCHANGED dependencies
                    ELSE /\ dependencies' =
                               [dependencies EXCEPT !.keys = @ \cup {cur}]
                         /\ \E more \in Orders(dependencies.of[cur] \ visited') :
                               queue' = Tail(queue) \o more
                         /\ UNCHANGED <<dcPc, dcOut>>
    /\ UNCHANGED <<cache_file, dcText, deps_default, nonDcVars>>

InitDeps ==
    /\ cache_file \in CacheFiles
    /\ dcText \in [DcFiles -> FileStates]
    /\ file_hashes = NoHashes
    /\ dependencies = NoDeps
    /\ deps_default = TRUE
    /\ dcPc = "new"
    /\ queue = <<>>
    /\ visited = {}
    /\ checks = [f \in DcFiles |-> 0]
    /\ dcOut = NoDcCall
    /\ SelQuiet
    /\ BldQuiet
    /\ BloomQuiet
    /\ UIQuiet
    /\ DiagQuiet
    /\ RegQuiet
    /\ SfQuiet /\ EcQuiet

NextDeps ==
    \/ Construct
    \/ \E src \in DcFiles, h \in Headers : AddDependency(src, h)
    \/ \E src \in DcSources : NeedsRebuildBegin(src)
    \/ BfsStep

SpecDeps == InitDeps /\ [][NextDeps]_vars

\* The loop of needs_rebuild is not left waiting: an enabled step is taken.
SpecDepsLive == SpecDeps /\ WF_vars(BfsStep)

(***************************************************************************)
(* Properties of DependencyCache                                           *)
(***************************************************************************)

\* C16: needs_rebuild(source) returns true whenever the source or a header
\* reachable from it is missing, has no stored digest or has a digest that
\* differs from the stored one (as the call begins); it returns false only
\* when none is.
C16_NeedsRebuildIffStale ==
    (dcOut.op = "needs_rebuild" /\ dcOut.kind \in {"return", "raise"})
        => /\ dcOut.expected => (dcOut.kind = "return" /\ dcOut.result)
           /\ (dcOut.kind = "return" /\ ~dcOut.result) => ~dcOut.expected

\* C17: needs_rebuild ends, whatever the dependency graph, and no header is
\* checked more than once in a call.
C17_TraversalTerminates ==
    /\ [](\A h \in Headers : checks[h] <= 1)
    /\ (dcPc = "bfs") ~> (dcPc = "ready")

\* C17 witness: needs_rebuild returned false after it went through the
\* cycle util.h -> types.h -> util.h, each header checked once.
C17_Witness ==
    /\ dcOut.op = "needs_rebuild" /\ dcOut.kind = "return" /\ ~dcOut.result
    /\ "util.h" \in dependencies.of["types.h"]
    /\ "types.h" \in dependencies.of["util.h"]
    /\ checks["util.h"] = 1 /\ checks["types.h"] = 1

\* C18: when loading the cache file failed, the constructed cache has no
\* stored digest and no dependency edge, and the first needs_rebuild on it
\* returns true.
C18_FailedLoadGivesEmptyCache ==
    LoadFails(cache_file)
        => /\ dcOut.kind = "constructed"
                => (file_hashes = NoHashes /\ dependencies = NoDeps)
           /\ (dcOut.op = "needs_rebuild" /\ dcOut.pristine
                    /\ dcOut.kind \in {"return", "raise"})
                => (dcOut.kind = "return" /\ dcOut.result)

\* C31: no step of needs_rebuild changes a stored digest (only update_file
\* writes them), so that a call that found a change finds it again.
C31_NeedsRebuildKeepsDigests ==
    [][((dcPc = "ready" /\ dcOut'.op = "needs_rebuild" /\ dcOut' # dcOut)
            \/ dcPc = "bfs")
        => file_hashes' = file_hashes]_vars

(***************************************************************************)
(* Specification SpecTrip: a cache that starts without a cache file is     *)
(* used, saved once and opened again from the file it wrote.               *)
(***************************************************************************)
\* What save() writes: the digests and the dependency map, every key of
\* self.dependencies with the list of its headers.
saved(h, d) ==
    [kind |-> "json", hashes_ok |-> TRUE, hashes |-> h, deps_ok |-> TRUE, deps |-> d]

\* cache.save()
Save ==
    /\ dcPc = "ready"
    /\ cache_file.kind = "absent"
    /\ cache_file' = saved(file_hashes, dependencies)
    /\ dcOut' = DcCall("return", "save", "none", FALSE, FALSE, FALSE)
    /\ UNCHANGED <<dcText, file_hashes, dependencies, deps_default, dcPc, queue,
                   visited, checks, nonDcVars>>

\* DependencyCache(cache_file) again, on the file the cache was saved to.
Reopen ==
    /\ dcPc = "ready"
    /\ cache_file.kind = "json"
    /\ file_hashes' = load(cache_file).file_hashes
    /\ dependencies' = load(cache_file).dependencies
    /\ deps_default' = load(cache_file).deps_default
    /\ dcOut' = DcCall("constructed", "init", "none", FALSE, FALSE, FALSE)
    /\ UNCHANGED <<cache_file, dcText, dcPc, queue, visited, checks, nonDcVars>>

InitTrip ==
    /\ cache_file = [kind |-> "absent", hashes_ok |-> FALSE, hashes |-> NoHashes,
                     deps_ok |-> FALSE, deps |-> NoDeps]
    /\ dcText \in [DcFiles -> Texts]
    /\ file_hashes = NoHashes
    /\ dependencies = NoDeps
    /\ deps_default = TRUE
    /\ dcPc = "new"
    /\ queue = <<>>
    /\ visited = {}
    /\ checks = [f \in DcFiles |-> 0]
    /\ dcOut = NoDcCall
    /\ SelQuiet /\ BldQuiet /\ BloomQuiet /\ UIQuiet /\ DiagQuiet
    /\ RegQuiet /\ SfQuiet /\ EcQuiet

NextTrip ==
    \/ Construct
    \/ \E src \in DcFiles, h \in Headers : AddDependency(src, h)
    \/ \E src \in DcSources : NeedsRebuildBegin(src)
    \/ BfsStep
    \/ Save
    \/ Reopen

SpecTrip == InitTrip /\ [][NextTrip]_vars

\* C32: a cache opened from the file a cache was saved to holds the digests
\* and the dependency edges that were saved, and add_dependency and
\* needs_rebuild on it raise no error, as on the cache that was saved.
C32_SaveLoadRoundTrip ==
    /\ (dcOut.kind = "constructed" /\ cache_file.kind = "json")
            => (file_hashes = cache_file.hashes /\ dependencies = cache_file.deps)
    /\ dcOut.kind # "raise"

(***************************************************************************)
(* core/diagnostics.py: parse_gcc_output                                   *)
(***************************************************************************)
RECURSIVE split(_)
\* text.split('\n')
split(t) ==
    IF \A i \in 1 .. Len(t) : t[i] # NL THEN <<t>>
    ELSE LET i == CHOOSE i \in 1 .. Len(t) :
                      t[i] = NL /\ \A j \in 1 .. i - 1 : t[j] # NL
         IN <<SubSeq(t, 1, i - 1)>> \o split(SubSeq(t, i + 1, Len(t)))

\* line.strip()
strip(s) ==
    LET I == {i \in 1 .. Len(s) : s[i] \notin Whitespace}
    IN IF I = {} THEN <<>>
       ELSE SubSeq(s, CHOOSE i \in I : \A j \in I : i <= j,
                      CHOOSE i \in I : \A j \in I : j <= i)

RECURSIVE int(_)
\* int(digits)
int(s) ==
    IF s = <<>> THEN 0
    ELSE 10 * int(SubSeq(s, 1, Len(s) - 1)) + (IF s[Len(s)] = "1" THEN 1 ELSE 2)

\* Word w stands in s at position p.
At(s, p, w) == p + Len(w) - 1 <= Len(s) /\ SubSeq(s, p, p + Len(w) - 1) = w

\* The end of the longest run of characters of S that starts at p
\* (p - 1 when there is none): what a greedy \d+ or \s* takes.
RunEnd(s, p, S) ==
    CHOOSE e \in (p - 1) .. Len(s) :
        /\ \A k \in p .. e : s[k] \in S
        /\ e = Len(s) \/ s[e + 1] \notin S

\* The rest of the pattern after the file group, tried at position i:
\* :(\d+):(\d+):\s*(warning|error|fatal error|note):\s*(.+)$
match_at(s, i) ==
    LET a == RunEnd(s, i + 1, Digits)
        b == RunEnd(s, a + 2, Digits)
        q == RunEnd(s, b + 2, Whitespace) + 1
        Alt == {n \in 1 .. Len(Kinds) :
                    /\ At(s, q, Kinds[n])
                    /\ At(s, q + Len(Kinds[n]), <<":">>)
                    /\ q + Len(Kinds[n]) < Len(s)}
        n == CHOOSE n \in Alt : \A k \in Alt : n <= k
        c == q + Len(Kinds[n])
        r == RunEnd(s, c + 1, Whitespace)
        m == IF r < Len(s) THEN r + 1 ELSE r
    IN IF /\ At(s, i, <<":">>)
          /\ a > i /\ At(s, a + 1, <<":">>)
          /\ b > a + 1 /\ At(s, b + 1, <<":">>)
          /\ Alt # {}
       THEN [ok |-> TRUE, line |-> SubSeq(s, i + 1, a),
             col |-> SubSeq(s, a + 2, b), kind |-> Kinds[n],
             msg |-> SubSeq(s, m, Len(s))]
       ELSE [ok |-> FALSE]

\* GCC_LINE_RE.match(line): the file group is the shortest one the rest of
\* the pattern matches after.
match(s) ==
    LET I == {i \in 2 .. Len(s) : match_at(s, i).ok}
    IN IF I = {} THEN [ok |-> FALSE]
       ELSE LET i == CHOOSE i \in I : \A j \in I : i <= j
                t == match_at(s, i)
            IN [ok |-> TRUE, file |-> SubSeq(s, 1, i - 1), line |-> t.line,
                col |-> t.col, kind |-> t.kind, msg |-> t.msg]

\* The kind is kept as the severity (mutation).
severity_raw(kind) ==
    IF kind = <<"fatal", " ", "error">> THEN "fatal error" ELSE kind[1]

\* "Map kind to severity"
severity_of(kind) ==
    IF kind \in {<<"error">>, <<"fatal", " ", "error">>} THEN "error"
    ELSE IF kind = <<"warning">> THEN "warning"
    ELSE IF kind = <<"note">> THEN "note"
    ELSE "error"

RECURSIVE parse_lines(_)
\* The loop over the lines: the diagnostics are appended in line order.
parse_lines(ls) ==
    IF ls = <<>> THEN <<>>
    ELSE LET line == strip(Head(ls))
             m == match(line)
         IN (IF line # <<>> /\ m.ok
             THEN <<Diagnostic(m.file, int(m.line), int(m.col), strip(m.msg),
                               severity_of(m.kind))>>
             ELSE <<>>) \o parse_lines(Tail(ls))

parse_gcc_output(text) ==
    IF text = <<>> THEN <<>> ELSE parse_lines(split(text))

\* diagnostics = parse_gcc_output(text)
ParseGccOutput ==
    /\ diagOut.kind = "uncalled"
    /\ diagOut' = [kind |-> "return", list |-> parse_gcc_output(diagText)]
    /\ UNCHANGED <<diagText, nonDiagVars>>

InitDiag ==
    /\ SelQuiet /\ BldQuiet /\ BloomQuiet /\ UIQuiet /\ DcQuiet
    /\ RegQuiet /\ SfQuiet /\ EcQuiet
    /\ diagText \in DiagTexts
    /\ diagOut = NoParse

NextDiag == ParseGccOutput

SpecDiag == InitDiag /\ [][NextDiag]_vars

\* The ways to read a line as <file>:<line>:<column>: <kind>: <message>,
\* with a file and a message that are not blank.
Forms(line) ==
    LET Colons == {i \in 1 .. Len(line) : line[i] = ":"}
        NonBlank(lo, hi) == \E k \in lo .. hi : line[k] \notin Whitespace
        AllIn(lo, hi, S) == lo <= hi /\ \A k \in lo .. hi : line[k] \in S
        Fits(i, j, k, c, n) ==
            /\ i < j /\ j < k /\ k < c
            /\ NonBlank(1, i - 1)
            /\ AllIn(i + 1, j - 1, Digits)
            /\ AllIn(j + 1, k - 1, Digits)
            /\ c - Len(Kinds[n]) > k
            /\ \A p \in k + 1 .. c - Len(Kinds[n]) - 1 : line[p] \in Whitespace
            /\ SubSeq(line, c - Len(Kinds[n]), c - 1) = Kinds[n]
            /\ NonBlank(c + 1, Len(line))
    IN {[kind |-> Kinds[f[5]], line |-> int(SubSeq(line, f[1] + 1, f[2] - 1)),
         column |-> int(SubSeq(line, f[2] + 1, f[3] - 1))] :
            f \in {g \in Colons \X Colons \X Colons \X Colons \X (1 .. Len(Kinds)) :
                        Fits(g[1], g[2], g[3], g[4], g[5])}}

\* The severity the specification gives to a kind.
Normalized(kind) ==
    IF kind = <<"warning">> THEN "warning"
    ELSE IF kind = <<"note">> THEN "note"
    ELSE "error"

\* The lines of the text that have the form, in order.
FormLines(text) == SelectSeq(split(text), LAMBDA l : Forms(l) # {})

\* C20: parse_gcc_output returns one Diagnostic for each line of the form
\* <file>:<line>:<column>: <kind>: <message>, in line order, with the
\* severity error for error and fatal error, warning for warning and note
\* for note; other lines give nothing, every severity is error, warning or
\* note, and the call returns for every text.
C20_OneDiagnosticPerFormLine ==
    diagOut.kind # "uncalled"
        => LET want == FormLines(diagText)
               got == diagOut.list
           IN /\ diagOut.kind = "return"
              /\ Len(got) = Len(want)
              /\ \A k \in 1 .. Len(got) :
                    /\ got[k].severity \in {"error", "warning", "note"}
                    /\ \E f \in Forms(want[k]) :
                          /\ got[k].severity = Normalized(f.kind)
                          /\ got[k].line = f.line
                          /\ got[k].column = f.column

\* C20 witness: a text of a "fatal error" line and a line that is not blank
\* and has not the form was parsed into one Diagnostic of severity error.
C20_Witness ==
    /\ diagOut.kind = "return"
    /\ Len(diagOut.list) = 1
    /\ diagOut.list[1].severity = "error"
    /\ \E l \in Range(split(diagText)) :
            \E f \in Forms(l) : f.kind = <<"fatal", " ", "error">>
    /\ \E l \in Range(split(diagText)) : strip(l) # <<>> /\ Forms(l) = {}

(***************************************************************************)
(* Specification SpecReg: calls of get_toolchains, with the application    *)
(* root and the installed toolchains changing between the calls.           *)
(***************************************************************************)
\* get_toolchains() under @lru_cache(maxsize=1): the body runs when nothing
\* is cached, and its result is cached and returned from then on.
GetToolchains ==
    /\ regOut' = IF tc_cache = <<>> THEN <<Toolchains(app_root)>> ELSE tc_cache
    /\ tc_cache' = regOut'
    /\ UNCHANGED <<app_root, regFs, nonRegVars>>

\* get_app_root() returns another directory from now on; the caller has
\* used the registry it had.
SetAppRoot(r) ==
    /\ r # app_root
    /\ app_root' = r
    /\ regOut' = <<>>
    /\ UNCHANGED <<tc_cache, regFs, nonRegVars>>

\* A toolchain is installed, removed or damaged below compilers/.
SetInstallation(n, d) ==
    /\ d # regFs[n]
    /\ regFs' = [regFs EXCEPT ![n] = d]
    /\ regOut' = <<>>
    /\ UNCHANGED <<app_root, tc_cache, nonRegVars>>

InitReg ==
    /\ SelQuiet /\ BldQuiet /\ BloomQuiet /\ UIQuiet /\ DcQuiet /\ DiagQuiet
    /\ SfQuiet /\ EcQuiet
    /\ app_root \in AppRoots
    /\ tc_cache = <<>>
    /\ regFs \in ToolchainFsStates
    /\ regOut = <<>>

NextReg ==
    \/ GetToolchains
    \/ \E r \in AppRoots : SetAppRoot(r)
    \/ \E n \in ToolchainNames, d \in ToolchainDirStates : SetInstallation(n, d)

SpecReg == InitReg /\ [][NextReg]_vars

\* C29: what a get_toolchains call returned has mingw32 and mingw64, each
\* rooted at <application root>/compilers/<name> for the application root
\* of the time of the call, whether or not the directories exist.
C29_RegistryFollowsAppRoot ==
    regOut # <<>>
        => /\ DOMAIN regOut[1] = {"mingw32", "mingw64"}
           /\ \A n \in DOMAIN regOut[1] :
                 regOut[1][n].root_dir = <<app_root, "compilers", n>>

(***************************************************************************)
(* Specification SpecSingle: project_config_for_single_file applied to     *)
(* every argument.                                                         *)
(***************************************************************************)
\* source_path.suffix.lower()
lower(suffix) ==
    IF suffix = ".C" THEN ".c" ELSE IF suffix = ".CPP" THEN ".cpp" ELSE suffix

\* `standard_override or default`
Or(override, default) == IF override \in {"None", ""} THEN default ELSE override

\* project_config_for_single_file(source_path, standard_override,
\* toolchain_preference, project_type)
project_config_for_single_file(a) ==
    LET ext == lower(a.suffix)
        features ==
            IF a.project_type = "console"
            THEN [graphics |-> a.has_graphics, openmp |-> a.has_omp]
            ELSE IF a.project_type = "graphics"
            THEN [graphics |-> TRUE, openmp |-> FALSE]
            ELSE [graphics |-> FALSE, openmp |-> TRUE]
        pref == IF a.project_type = "graphics" THEN "mingw32"
                ELSE IF a.project_type = "openmp" THEN "mingw64"
                ELSE a.toolchain_preference
        Config(language, standard) ==
            [kind |-> "return",
             config |-> [name |-> a.stem, language |-> language,
                         standard |-> standard, project_type |-> a.project_type,
                         graphics |-> features.graphics, openmp |-> features.openmp,
                         files |-> << <<a.stem, a.suffix>> >>,
                         toolchain_preference |-> pref]]
    IN IF ext = ".c" THEN Config("c", Or(a.standard_override, "c17"))
       ELSE IF ext \in {".cpp", ".cc", ".cxx"}
       THEN Config("cpp", Or(a.standard_override, "c++17"))
       ELSE [kind |-> "raise", config |-> NoConfig]

SingleFileCall ==
    /\ sfOut = NoSingleFile
    /\ sfOut' = project_config_for_single_file(sfArgs)
    /\ UNCHANGED <<sfArgs, nonSfVars>>

InitSingle ==
    /\ SelQuiet /\ BldQuiet /\ BloomQuiet /\ UIQuiet /\ DcQuiet /\ DiagQuiet
    /\ RegQuiet /\ EcQuiet
    /\ sfArgs \in SingleFileArgs
    /\ sfOut = NoSingleFile

NextSingle == SingleFileCall

SpecSingle == InitSingle /\ [][NextSingle]_vars

\* C30: without a standard override a .c file gives language c with
\* standard c11 and a .cpp file language cpp with standard c++17, the
\* project name being the file stem; a given override is the standard.
C30_SingleFileDefaults ==
    sfOut.kind = "return"
        => /\ sfOut.config.name = sfArgs.stem
           /\ (sfArgs.standard_override = "None" /\ sfArgs.suffix = ".c")
                => (sfOut.config.language = "c" /\ sfOut.config.standard = "c11")
           /\ (sfArgs.standard_override = "None" /\ sfArgs.suffix = ".cpp")
                => (sfOut.config.language = "cpp" /\ sfOut.config.standard = "c++17")
           /\ sfArgs.standard_override \notin {"None", ""}
                => sfOut.config.standard = sfArgs.standard_override

(***************************************************************************)
(* app.py: EditorCache.  _store is an OrderedDict: a sequence of items,    *)
(* the first one being the one popitem(last=False) removes.                *)
(***************************************************************************)
Keys(st) == {st[i].key : i \in DOMAIN st}
IndexOf(st, k) == CHOOSE i \in DOMAIN st : st[i].key = k

\* OrderedDict.pop(k, default): the item of k is taken out, if there is one.
Remove(st, k) == LET keep(x) == x.key # k IN SelectSeq(st, keep)

\* OrderedDict.move_to_end(k): the item of k becomes the last one.
move_to_end_noop(st, k) == st
move_to_end(st, k) == Append(Remove(st, k), st[IndexOf(st, k)])

\* self._store[k] = editor for a key that is present: the item keeps its
\* place.
Replace(st, k, e) ==
    [i \in DOMAIN st |-> IF st[i].key = k THEN [key |-> k, editor |-> e] ELSE st[i]]

\* len(self._store) >= self.max_editors
FullStrict(st, m) == Len(st) > m
Full(st, m) == Len(st) >= m

\* History: the key sequence q after key k was used, and q restricted to
\* the keys ks that are still cached.
Used(q, k) == LET other(x) == x # k IN Append(SelectSeq(q, other), k)
Kept(q, ks) == LET cached(x) == x \in ks IN SelectSeq(q, cached)

\* The record of a call on key k that returned value: whether k was cached,
\* how many items there were, the least recently used item and the key
\* inserted first, all before the call.
EditorCall(op, k, value) ==
    [NoEditorCall EXCEPT
        !.op = op, !.kind = "return", !.key = k, !.value = value,
        !.present = k \in Keys(store),
        !.full = Len(store) >= max_editors,
        !.lru = IF recency = <<>> THEN <<>>
                ELSE <<store[IndexOf(store, Head(recency))]>>,
        !.oldest = IF inserted = <<>> THEN <<>> ELSE <<Head(inserted)>>]

\* __setitem__(key, editor), also add(path, editor)
SetItem(p, e) ==
    LET k == normalize_key(p)
        item == [key |-> k, editor |-> e]
    IN /\ IF k \in Keys(store)
          THEN /\ store' = move_to_end(Replace(store, k, e), k)
               /\ ecOut' = EditorCall("setitem", k, <<>>)
               /\ inserted' = inserted
          ELSE /\ IF Full(store, max_editors)
                  THEN /\ store' = Append(Tail(store), item)
                       /\ ecOut' = [EditorCall("setitem", k, <<>>) EXCEPT
                                       !.evicted = <<Head(store)>>,
                                       !.released = {Head(store).editor}]
                  ELSE /\ store' = Append(store, item)
                       /\ ecOut' = EditorCall("setitem", k, <<>>)
               /\ inserted' = Append(Kept(inserted, Keys(store')), k)
       /\ recency' = Used(Kept(recency, Keys(store')), k)
       /\ UNCHANGED <<max_editors, nonEcVars>>

\* __getitem__(key): KeyError for a key that is not cached.
GetItem(p) ==
    LET k == normalize_key(p)
    IN /\ IF k \in Keys(store)
          THEN /\ store' = move_to_end(store, k)
               /\ recency' = Used(recency, k)
               /\ ecOut' = EditorCall("getitem", k, <<store[IndexOf(store, k)].editor>>)
          ELSE /\ ecOut' = [EditorCall("getitem", k, <<>>) EXCEPT !.kind = "raise"]
               /\ UNCHANGED <<store, recency>>
       /\ UNCHANGED <<max_editors, inserted, nonEcVars>>

\* get(key): None for a key that is not cached.
Get(p) ==
    LET k == normalize_key(p)
    IN /\ IF k \in Keys(store)
          THEN /\ store' = move_to_end(store, k)
               /\ recency' = Used(recency, k)
               /\ ecOut' = EditorCall("get", k, <<store[IndexOf(store, k)].editor>>)
          ELSE /\ ecOut' = EditorCall("get", k, <<>>)
               /\ UNCHANGED <<store, recency>>
       /\ UNCHANGED <<max_editors, inserted, nonEcVars>>

\* pop(key): the editor is handed back, not released.
Pop(p) ==
    LET k == normalize_key(p)
    IN /\ store' = Remove(store, k)
       /\ recency' = Kept(recency, Keys(store'))
       /\ inserted' = Kept(inserted, Keys(store'))
       /\ ecOut' = EditorCall("pop", k, IF k \in Keys(store)
                                        THEN <<store[IndexOf(store, k)].editor>>
                                        ELSE <<>>)
       /\ UNCHANGED <<max_editors, nonEcVars>>

\* clear(): deleteLater on every cached editor.
Clear ==
    /\ store' = <<>>
    /\ recency' = <<>>
    /\ inserted' = <<>>
    /\ ecOut' = [EditorCall("clear", "none", <<>>) EXCEPT
                    !.released = {store[i].editor : i \in DOMAIN store}]
    /\ UNCHANGED <<max_editors, nonEcVars>>

\* __contains__(key)
Contains(p) ==
    /\ ecOut' = EditorCall("contains", normalize_key(p), <<>>)
    /\ UNCHANGED <<store, max_editors, recency, inserted, nonEcVars>>

\* EditorCache(max_editors): empty.
InitEditors ==
    /\ store = <<>>
    /\ max_editors \in 1 .. MaxEditors
    /\ recency = <<>>
    /\ inserted = <<>>
    /\ ecOut = NoEditorCall
    /\ SelQuiet /\ BldQuiet /\ BloomQuiet /\ UIQuiet /\ DcQuiet /\ DiagQuiet
    /\ RegQuiet /\ SfQuiet

NextEditors ==
    \/ \E p \in EditorPaths, e \in Editors : SetItem(p, e)
    \/ \E p \in EditorPaths : GetItem(p)
    \/ \E p \in EditorPaths : Get(p)
    \/ \E p \in EditorPaths : Pop(p)
    \/ Clear
    \/ \E p \in EditorPaths : Contains(p)

SpecEditors == InitEditors /\ [][NextEditors]_vars

\* C38: after any sequence of insert, lookup, pop and clear calls the number
\* of cached editors is at most max_editors.
C38_AtMostMaxEditors ==
    Len(store) <= max_editors

\* C38 witness: a new key was inserted into a cache that held max_editors
\* editors, and it holds max_editors editors afterwards.
C38_Witness ==
    /\ ecOut.op = "setitem" /\ ~ecOut.present /\ ecOut.full
    /\ ecOut.evicted # <<>>
    /\ Len(store) = max_editors

\* C39: inserting a new key into a full cache evicts the least recently
\* used item (insert, replacement, get and item lookup being the uses),
\* calls deleteLater on its editor and on no other; inserting under a key
\* that is cached evicts and releases nothing.
C39_EvictsLeastRecentlyUsed ==
    ecOut.op = "setitem"
        => /\ (~ecOut.present /\ ecOut.full)
                => /\ ecOut.lru # <<>>
                   /\ ecOut.evicted = ecOut.lru
                   /\ ecOut.released = {ecOut.lru[1].editor}
                   /\ ecOut.lru[1].key \notin Keys(store)
           /\ ecOut.present
                => /\ ecOut.evicted = <<>>
                   /\ ecOut.released = {}
                   /\ ecOut.key \in Keys(store)

\* C39 witness: the evicted item was not the one inserted first, because the
\* one inserted first had been used since.
C39_Witness ==
    /\ ecOut.op = "setitem" /\ ~ecOut.present /\ ecOut.full
    /\ ecOut.evicted # <<>>
    /\ ecOut.oldest # <<>>
    /\ ecOut.evicted[1].key # ecOut.oldest[1]

====
